---- MODULE Spec2Model ----
(***************************************************************************)
(* A model of the comparable-selection and price-estimation engine         *)
(* (RealEstateAnalyzer, analysis_engine.py), of the components that build  *)
(* a property record's pricing (csv_converter.py, portal_adapters.py,      *)
(* main_workflow.py), of the workflow that feeds the engine                *)
(* (main_workflow.py) and of the search-query mapper (fincaraiz_mapper.py).*)
(*                                                                         *)
(* Numbers.  Python computes with ints and floats.  The model computes     *)
(* with exact rationals [n |-> numerator, d |-> denominator > 0] in lowest *)
(* terms, so that a division is a division and not the identity.  The one  *)
(* irrational operation of the code, the square root inside                *)
(* statistics.stdev, is kept symbolic: a value x + y * sqrt(r) is the      *)
(* record [x, y, r] ("surd"), and comparisons of surds are decided by      *)
(* squaring.  Floating-point rounding is not modelled.                     *)
(*                                                                         *)
(* Dictionaries.  A Python dict is a TLA+ function whose DOMAIN is the set *)
(* of keys present, so dict.get(key, default) is Get(dict, key, default).  *)
(***************************************************************************)
EXTENDS Integers, Sequences, FiniteSets, TLC

VARIABLES
    properties,             \* RealEstateAnalyzer.properties
    target_property,        \* RealEstateAnalyzer.target_property (None when unset)
    analysis_results,       \* RealEstateAnalyzer.analysis_results (None when unset)
    market_stats,           \* RealEstateAnalyzer.market_stats (None when unset)
    comparable_properties,  \* the local of the last analyze_market call (<<>> when not computed)
    outcome,                \* how the last call ended: "init", "ok" or the exception raised
    raw,                    \* the input handed to a builder, the workflow or the mapper
    built                   \* what that component has produced so far (None before the call)

vars == <<properties, target_property, analysis_results, market_stats,
          comparable_properties, outcome, raw, built>>

analyzerVars == <<properties, target_property, analysis_results, market_stats,
                  comparable_properties, outcome>>

builderVars == <<raw, built>>

\* Python's None, where a dict, a dataclass or a number is expected
None == [none |-> TRUE]

\* Python's None, where a string is expected
NoneStr == "None"

\* an exception leaving a method
Raised(e) == [raised |-> e]

IsRaised(v) == "raised" \in DOMAIN v

\* dict.get(key, default)
Get(dict, key, default) == IF key \in DOMAIN dict THEN dict[key] ELSE default

\* Python evaluates an argument or a local once and then names its value:
\* Let(v, LAMBDA x : e) is e with x naming the value of v.
Let(v, F(_)) == CHOOSE r \in {F(x) : x \in {v}} : TRUE

Let2(v, w, F(_, _)) == CHOOSE r \in {F(x, y) : x \in {v}, y \in {w}} : TRUE

----------------------------------------------------------------------------
(* Exact rational arithmetic standing for Python's int/float arithmetic.   *)

Abs(i) == Let(i, LAMBDA v : IF v < 0 THEN -v ELSE v)

RECURSIVE GCD(_, _)
GCD(a, b) == Let2(a, b, LAMBDA x, y : IF y = 0 THEN x ELSE GCD(y, x % y))

\* the rational num/den (den # 0) in lowest terms with a positive denominator
Rat(num, den) ==
    Let2(num, den, LAMBDA p, q :
        Let(GCD(Abs(p), Abs(q)), LAMBDA g :
            IF q < 0 THEN [n |-> (-p) \div g, d |-> (-q) \div g]
                     ELSE [n |-> p \div g, d |-> q \div g]))

RInt(i) == [n |-> i, d |-> 1]

RZero == RInt(0)

ROne == RInt(1)

\* sums and comparisons go through the least common denominator
RAdd(a, b) ==
    Let2(a, b, LAMBDA x, y :
        Let(GCD(x.d, y.d), LAMBDA g :
            Rat(x.n * (y.d \div g) + y.n * (x.d \div g), (x.d \div g) * y.d)))

RSub(a, b) ==
    Let2(a, b, LAMBDA x, y :
        Let(GCD(x.d, y.d), LAMBDA g :
            Rat(x.n * (y.d \div g) - y.n * (x.d \div g), (x.d \div g) * y.d)))

RMul(a, b) ==
    Let2(a, b, LAMBDA x, y :
        Let2(GCD(Abs(x.n), y.d), GCD(Abs(y.n), x.d), LAMBDA g1, g2 :
            Rat((x.n \div g1) * (y.n \div g2), (x.d \div g2) * (y.d \div g1))))

\* a / b for b # 0 (the callers guard the zero case as the code does)
RDiv(a, b) == Let(b, LAMBDA y : RMul(a, Rat(y.d, y.n)))

RLt(a, b) ==
    Let2(a, b, LAMBDA x, y :
        Let(GCD(x.d, y.d), LAMBDA g : x.n * (y.d \div g) < y.n * (x.d \div g)))

RLe(a, b) ==
    Let2(a, b, LAMBDA x, y :
        Let(GCD(x.d, y.d), LAMBDA g : x.n * (y.d \div g) <= y.n * (x.d \div g)))

RAbs(a) == Let(a, LAMBDA x : [n |-> Abs(x.n), d |-> x.d])

RMin(a, b) == Let2(a, b, LAMBDA x, y : IF RLe(x, y) THEN x ELSE y)

RMax(a, b) == Let2(a, b, LAMBDA x, y : IF RLe(y, x) THEN x ELSE y)

\* sum(xs) for a sequence of rationals
RECURSIVE RSum(_)
RSum(xs) == Let(xs, LAMBDA s : IF s = <<>> THEN RZero ELSE RAdd(Head(s), RSum(Tail(s))))

\* [f(x) for x in xs]
Map(f(_), xs) == Let(xs, LAMBDA s : [i \in 1..Len(s) |-> f(s[i])])

\* [x for x in xs if test(x)]
Filter(test(_), xs) == Let(xs, LAMBDA s : SelectSeq(s, test))

\* sorted(xs) for a sequence of rationals (ascending, duplicates kept)
Sorted_Unsorted(xs) == xs

RECURSIVE Insert(_, _)
Insert(x, xs) ==
    Let2(x, xs, LAMBDA v, s :
        IF s = <<>> THEN <<v>>
        ELSE IF RLe(v, Head(s)) THEN <<v>> \o s
        ELSE <<Head(s)>> \o Insert(v, Tail(s)))

RECURSIVE Sorted(_)
Sorted(xs) == Let(xs, LAMBDA s : IF s = <<>> THEN <<>> ELSE Insert(Head(s), Sorted(Tail(s))))

\* min(xs), max(xs) of a non-empty sequence of rationals
RECURSIVE MinOf(_)
MinOf(xs) == Let(xs, LAMBDA s : IF Len(s) = 1 THEN s[1] ELSE RMin(Head(s), MinOf(Tail(s))))

RECURSIVE MaxOf(_)
MaxOf(xs) == Let(xs, LAMBDA s : IF Len(s) = 1 THEN s[1] ELSE RMax(Head(s), MaxOf(Tail(s))))

----------------------------------------------------------------------------
(* Surds: x + y * sqrt(r) with rational x, r >= 0 and y in {-1, 0, 1}      *)
(* (the factor of the root is folded into the radicand).                   *)

Sign(a) == Let(a, LAMBDA v : IF v.n > 0 THEN 1 ELSE IF v.n < 0 THEN -1 ELSE 0)

Surd(x, y, r) ==
    Let2(y, r, LAMBDA y1, r1 :
        IF y1.n = 0 \/ r1.n = 0
        THEN [x |-> x, y |-> 0, r |-> RZero]
        ELSE [x |-> x, y |-> Sign(y1), r |-> RMul(r1, RMul(y1, y1))])

SurdOfRat(x) == [x |-> x, y |-> 0, r |-> RZero]

\* math.sqrt(r)
Sqrt(r) == Surd(RZero, ROne, r)

\* k * s for a rational k
SurdScale(k, s) ==
    Let2(k, s, LAMBDA k1, s1 : Surd(RMul(k1, s1.x), RMul(k1, RInt(s1.y)), s1.r))

\* c - s for a rational c
SurdSubFrom(c, s) == Let(s, LAMBDA s1 : Surd(RSub(c, s1.x), RInt(-s1.y), s1.r))

\* s <= c and s < c for a rational c, decided by squaring
SurdLe(s, c) ==
    Let2(s, c, LAMBDA s1, c1 :
        Let(RSub(c1, s1.x), LAMBDA k :
            CASE s1.y = 0 -> k.n >= 0
              [] s1.y = 1 -> k.n >= 0 /\ RLe(s1.r, RMul(k, k))
              [] OTHER    -> k.n >= 0 \/ RLe(RMul(k, k), s1.r)))

SurdLt(s, c) ==
    Let2(s, c, LAMBDA s1, c1 :
        Let(RSub(c1, s1.x), LAMBDA k :
            CASE s1.y = 0 -> k.n > 0
              [] s1.y = 1 -> k.n > 0 /\ RLt(s1.r, RMul(k, k))
              [] OTHER    -> k.n >= 0 \/ RLt(RMul(k, k), s1.r)))

\* max(c, s) and min(c, s) for a rational c
SurdMax(c, s) == Let2(c, s, LAMBDA c1, s1 : IF SurdLe(s1, c1) THEN SurdOfRat(c1) ELSE s1)

SurdMin(c, s) == Let2(c, s, LAMBDA c1, s1 : IF SurdLe(s1, c1) THEN s1 ELSE SurdOfRat(c1))

----------------------------------------------------------------------------
(* Python's statistics module, on non-empty sequences of rationals.        *)

\* statistics.mean
Mean(xs) == Let(xs, LAMBDA s : RDiv(RSum(s), RInt(Len(s))))

\* statistics.median: the middle element, or the mean of the two middle ones
Median(xs) ==
    Let(Sorted(xs), LAMBDA s :
        IF Len(s) % 2 = 1 THEN s[(Len(s) \div 2) + 1]
        ELSE RDiv(RAdd(s[Len(s) \div 2], s[(Len(s) \div 2) + 1]), RInt(2)))

\* statistics.variance: the sample variance (n - 1 in the denominator), n >= 2
Variance(xs) ==
    Let2(xs, Mean(xs), LAMBDA s, m :
        RDiv(RSum([i \in 1..Len(s) |-> Let(RSub(s[i], m), LAMBDA dev : RMul(dev, dev))]),
             RInt(Len(s) - 1)))

\* statistics.stdev: sqrt of the sample variance, n >= 2
Stdev(xs) == Sqrt(Variance(xs))

\* statistics.mode: the most common value, the first one met on a tie
Count(x, xs) == Cardinality({i \in 1..Len(xs) : xs[i] = x})

Mode(xs) ==
    Let(xs, LAMBDA s :
        s[CHOOSE i \in 1..Len(s) :
              /\ \A j \in 1..Len(s) : Count(s[j], s) <= Count(s[i], s)
              /\ \A j \in 1..(i - 1) : Count(s[j], s) < Count(s[i], s)])

----------------------------------------------------------------------------
(* RealEstateAnalyzer (analysis_engine.py).                                *)

\* [prop['pricing']['sale_price'] for prop in properties]
PricesOf(props) == Map(LAMBDA prop : RInt(prop.pricing.sale_price), props)

\* [prop['pricing']['price_per_m2'] for prop in properties]
PricesPerM2Of(props) == Map(LAMBDA prop : prop.pricing.price_per_m2, props)

\* _is_comparable with the upper area bound written >= 1.3
_is_comparable_StrictUpper(property_data, target_chars) ==
    Let2(property_data.characteristics, target_chars, LAMBDA prop_chars, tc :
        /\ Get(prop_chars, "property_type", NoneStr) = Get(tc, "property_type", NoneStr)
        /\ Get(prop_chars, "sale_type", NoneStr) = Get(tc, "sale_type", NoneStr)
        /\ ~Let2(Get(tc, "area_habitable", 0), Get(prop_chars, "area_habitable", 0),
                 LAMBDA target_area, prop_area :
                    /\ target_area > 0 /\ prop_area > 0
                    /\ Let(Rat(prop_area, target_area), LAMBDA area_ratio :
                           RLt(area_ratio, Rat(7, 10)) \/ RLe(Rat(13, 10), area_ratio)))
        /\ Abs(Get(tc, "bedrooms", 0) - Get(prop_chars, "bedrooms", 0)) <= 1
        /\ Abs(Get(tc, "stratum", 3) - Get(prop_chars, "stratum", 3)) <= 1)

_is_comparable(property_data, target_chars) ==
    Let2(property_data.characteristics, target_chars, LAMBDA prop_chars, tc :
        IF Get(prop_chars, "property_type", NoneStr) # Get(tc, "property_type", NoneStr)
        THEN FALSE
        ELSE IF Get(prop_chars, "sale_type", NoneStr) # Get(tc, "sale_type", NoneStr)
        THEN FALSE
        ELSE IF Let2(Get(tc, "area_habitable", 0), Get(prop_chars, "area_habitable", 0),
                     LAMBDA target_area, prop_area :
                        /\ target_area > 0 /\ prop_area > 0
                        /\ Let(Rat(prop_area, target_area), LAMBDA area_ratio :
                               RLt(area_ratio, Rat(7, 10)) \/ RLt(Rat(13, 10), area_ratio)))
        THEN FALSE
        ELSE IF Abs(Get(tc, "bedrooms", 0) - Get(prop_chars, "bedrooms", 0)) > 1
        THEN FALSE
        ELSE IF Abs(Get(tc, "stratum", 3) - Get(prop_chars, "stratum", 3)) > 1
        THEN FALSE
        ELSE TRUE)

\* applied to the analyzer's fields self.target_property and self.properties
_filter_comparable_properties(target, props) ==
    Let(target, LAMBDA t :
        IF t = None
        THEN <<>>
        ELSE Filter(LAMBDA prop : _is_comparable(prop, t.characteristics), props))

_calculate_market_statistics(props) ==
    Let2(PricesOf(props), PricesPerM2Of(props), LAMBDA prices, prices_per_m2 :
        Let2(Mean(prices), Sorted(prices), LAMBDA mean_price, sorted_prices :
            Let2(IF Len(prices) > 1 THEN Stdev(prices) ELSE SurdOfRat(RZero), Len(prices),
                 LAMBDA std_price, n :
                [mean_price |-> mean_price,
                 median_price |-> Median(prices),
                 mode_price |-> IF Cardinality({prices[i] : i \in 1..n}) < n
                                THEN Mode(prices) ELSE mean_price,
                 standard_deviation |-> std_price,
                 variance |-> IF n > 1 THEN Variance(prices) ELSE RZero,
                 price_range |-> <<MinOf(prices), MaxOf(prices)>>,
                 quartiles |-> <<sorted_prices[(n \div 4) + 1],
                                 sorted_prices[(n \div 2) + 1],
                                 sorted_prices[((3 * n) \div 4) + 1]>>,
                 coefficient_of_variation |->
                     IF mean_price.n > 0
                     THEN SurdScale(RInt(100), SurdScale(RDiv(ROne, mean_price), std_price))
                     ELSE SurdOfRat(RZero),
                 price_per_m2_mean |-> Mean(prices_per_m2),
                 price_per_m2_median |-> Median(prices_per_m2),
                 price_per_m2_std |-> IF Len(prices_per_m2) > 1
                                      THEN Stdev(prices_per_m2) ELSE SurdOfRat(RZero)])))

\* the factor of one dimension without its lower clamp
Decay_NoClamp(floor, diff, rate) == RSub(ROne, RMul(RInt(diff), rate))

\* the factor of one dimension: max(floor, 1.0 - diff * rate)
Decay(floor, diff, rate) == RMax(floor, RSub(ROne, RMul(RInt(diff), rate)))

_calculate_similarity_weight(property_data, target_chars) ==
    Let2(property_data.characteristics, target_chars, LAMBDA prop_chars, tc :
        Let2(Get(tc, "area_habitable", 0), Get(prop_chars, "area_habitable", 0),
             LAMBDA target_area, prop_area :
            Let2(Get(tc, "floor", 0), Get(prop_chars, "floor", 0),
                 LAMBDA target_floor, prop_floor :
                RMul(RMul(RMul(RMul(ROne,
                    IF target_area > 0 /\ prop_area > 0
                    THEN Rat(IF target_area <= prop_area THEN target_area ELSE prop_area,
                             IF target_area >= prop_area THEN target_area ELSE prop_area)
                    ELSE ROne),
                    Decay(Rat(5, 10),
                          Abs(Get(tc, "bedrooms", 0) - Get(prop_chars, "bedrooms", 0)),
                          Rat(2, 10))),
                    Decay(Rat(7, 10),
                          Abs(Get(tc, "stratum", 3) - Get(prop_chars, "stratum", 3)),
                          Rat(15, 100))),
                    IF target_floor > 0 /\ prop_floor > 0
                    THEN Decay(Rat(8, 10), Abs(target_floor - prop_floor), Rat(1, 10))
                    ELSE ROne))))

\* the weighted estimate without the division by the total weight
_calculate_weighted_estimate_Sum(comparable, target_chars) ==
    Let2(comparable, target_chars, LAMBDA props, tc :
        Let(Map(LAMBDA prop : _calculate_similarity_weight(prop, tc), props), LAMBDA weights :
            RSum([i \in 1..Len(props) |->
                     RMul(RInt(props[i].pricing.sale_price), weights[i])])))

_calculate_weighted_estimate(comparable, target_chars) ==
    Let2(comparable, target_chars, LAMBDA props, tc :
        Let(Map(LAMBDA prop : _calculate_similarity_weight(prop, tc), props), LAMBDA weights :
            Let2(RSum(weights),
                 RSum([i \in 1..Len(props) |->
                          RMul(RInt(props[i].pricing.sale_price), weights[i])]),
                 LAMBDA total_weight, weighted_sum :
                    IF total_weight.n > 0 THEN RDiv(weighted_sum, total_weight) ELSE RZero)))

\* _calculate_market_price_estimate without the fallback for an unknown target area
_calculate_market_price_estimate_NoFallback(comparable, target_chars) ==
    Let2(comparable, target_chars, LAMBDA props, tc :
        Let2(Mean(PricesOf(props)), Get(tc, "area_habitable", 0),
             LAMBDA simple_average, target_area :
            Let2(RMul(Mean(PricesPerM2Of(props)), RInt(target_area)),
                 _calculate_weighted_estimate(props, tc),
                 LAMBDA price_per_m2_estimate, weighted_estimate :
                    RAdd(RAdd(RMul(simple_average, Rat(4, 10)),
                              RMul(price_per_m2_estimate, Rat(4, 10))),
                         RMul(weighted_estimate, Rat(2, 10))))))

_calculate_market_price_estimate(comparable, target_chars) ==
    Let2(comparable, target_chars, LAMBDA props, tc :
        Let2(Mean(PricesOf(props)), Get(tc, "area_habitable", 0),
             LAMBDA simple_average, target_area :
            Let2(IF target_area > 0
                 THEN RMul(Mean(PricesPerM2Of(props)), RInt(target_area))
                 ELSE simple_average,
                 _calculate_weighted_estimate(props, tc),
                 LAMBDA price_per_m2_estimate, weighted_estimate :
                    RAdd(RAdd(RMul(simple_average, Rat(4, 10)),
                              RMul(price_per_m2_estimate, Rat(4, 10))),
                         RMul(weighted_estimate, Rat(2, 10))))))

\* the confidence score without the base confidence of the comparable count
_calculate_confidence_score_NoBase(comparable, target_chars) ==
    Let2(comparable, Get(target_chars, "area_habitable", 0), LAMBDA props, target_area :
        Let2(PricesOf(props),
             Filter(LAMBDA prop : Get(prop.characteristics, "area_habitable", 0) > 0, props),
             LAMBDA prices, known :
            IF Len(prices) > 1 /\ Mean(prices).n = 0
            THEN Raised("ZeroDivisionError")
            ELSE Let2(ROne,
                      IF Len(prices) > 1
                      THEN SurdMax(Rat(5, 10),
                               SurdSubFrom(ROne,
                                   SurdScale(RDiv(ROne, Mean(prices)), Stdev(prices))))
                      ELSE SurdOfRat(Rat(5, 10)),
                      LAMBDA base_confidence, consistency_factor :
                    Let(IF target_area > 0
                        THEN IF known # <<>>
                             THEN RMax(Rat(5, 10),
                                      RSub(ROne,
                                          Mean(Map(LAMBDA prop :
                                                     Rat(Abs(target_area
                                                             - prop.characteristics.area_habitable),
                                                         target_area),
                                                   known))))
                             ELSE Rat(5, 10)
                        ELSE Rat(5, 10),
                        LAMBDA area_factor :
                            SurdMin(ROne,
                                SurdMax(RZero,
                                    SurdScale(RMul(base_confidence, area_factor),
                                              consistency_factor)))))))

\* a Surd, or Raised("ZeroDivisionError") when the division of line 297 faults
_calculate_confidence_score(comparable, target_chars) ==
    Let2(comparable, Get(target_chars, "area_habitable", 0), LAMBDA props, target_area :
        Let2(PricesOf(props),
             Filter(LAMBDA prop : Get(prop.characteristics, "area_habitable", 0) > 0, props),
             LAMBDA prices, known :
            IF Len(prices) > 1 /\ Mean(prices).n = 0
            THEN Raised("ZeroDivisionError")
            ELSE Let2(RMin(ROne, Rat(Len(props), 10)),
                      IF Len(prices) > 1
                      THEN SurdMax(Rat(5, 10),
                               SurdSubFrom(ROne,
                                   SurdScale(RDiv(ROne, Mean(prices)), Stdev(prices))))
                      ELSE SurdOfRat(Rat(5, 10)),
                      LAMBDA base_confidence, consistency_factor :
                    Let(IF target_area > 0
                        THEN IF known # <<>>
                             THEN RMax(Rat(5, 10),
                                      RSub(ROne,
                                          Mean(Map(LAMBDA prop :
                                                     Rat(Abs(target_area
                                                             - prop.characteristics.area_habitable),
                                                         target_area),
                                                   known))))
                             ELSE Rat(5, 10)
                        ELSE Rat(5, 10),
                        LAMBDA area_factor :
                            SurdMin(ROne,
                                SurdMax(RZero,
                                    SurdScale(RMul(base_confidence, area_factor),
                                              consistency_factor)))))))

HasListingDate(p) == "metadata" \in DOMAIN p /\ "listing_date" \in DOMAIN p.metadata

\* _determine_market_trend asking for more than three comparables
_determine_market_trend_OffByOne(comparable) ==
    Let(comparable, LAMBDA props :
        IF Len(props) <= 3
        THEN "Insufficient data"
        ELSE IF Len(SelectSeq(props, HasListingDate)) < 3
        THEN "Stable"
        ELSE Let(PricesPerM2Of(props), LAMBDA prices_per_m2 :
                Let(IF Mean(prices_per_m2).n > 0
                    THEN SurdScale(RDiv(ROne, Mean(prices_per_m2)), Stdev(prices_per_m2))
                    ELSE SurdOfRat(RZero),
                    LAMBDA cv :
                        IF SurdLt(cv, Rat(1, 10)) THEN "Stable"
                        ELSE IF SurdLt(cv, Rat(2, 10)) THEN "Moderate volatility"
                        ELSE "High volatility")))

_determine_market_trend(comparable) ==
    Let(comparable, LAMBDA props :
        IF Len(props) < 3
        THEN "Insufficient data"
        ELSE IF Len(SelectSeq(props, HasListingDate)) < 3
        THEN "Stable"
        ELSE Let(PricesPerM2Of(props), LAMBDA prices_per_m2 :
                Let(IF Mean(prices_per_m2).n > 0
                    THEN SurdScale(RDiv(ROne, Mean(prices_per_m2)), Stdev(prices_per_m2))
                    ELSE SurdOfRat(RZero),
                    LAMBDA cv :
                        IF SurdLt(cv, Rat(1, 10)) THEN "Stable"
                        ELSE IF SurdLt(cv, Rat(2, 10)) THEN "Moderate volatility"
                        ELSE "High volatility")))

\* The recommendation strings.  A formatted number is kept as the entry's
\* argument, unrounded; an entry without a number has no argument.
RecOverpriced(pct) == [text |-> "Property appears overpriced by {}%", arg |-> pct]

RecReduce(estimate) ==
    [text |-> "Consider reducing price to ${} for better market positioning", arg |-> estimate]

RecUnderpriced(pct) == [text |-> "Property appears underpriced by {}%", arg |-> pct]

RecIncrease(estimate) ==
    [text |-> "Consider increasing price to ${} to maximize value", arg |-> estimate]

RecInRange == [text |-> "Property is priced within market range"]

RecLowConfidence ==
    [text |-> "Low confidence in analysis - consider gathering more comparable properties"]

RecHighConfidence ==
    [text |-> "High confidence in analysis - reliable market positioning"]

RecVerify ==
    [text |-> "Significant price deviation - verify property characteristics and market conditions"]

_generate_recommendations(target_price, market_estimate, price_diff_percentage, is_overpriced, is_underpriced, confidence_score) ==
    Let2(<<market_estimate, price_diff_percentage>>, confidence_score, LAMBDA mp, conf :
        (IF is_overpriced
         THEN <<RecOverpriced(RAbs(mp[2])), RecReduce(mp[1])>>
         ELSE IF is_underpriced
         THEN <<RecUnderpriced(RAbs(mp[2])), RecIncrease(mp[1])>>
         ELSE <<RecInRange>>)
        \o (IF SurdLt(conf, Rat(5, 10)) THEN <<RecLowConfidence>>
            ELSE IF ~SurdLe(conf, Rat(8, 10)) THEN <<RecHighConfidence>>
            ELSE <<>>)
        \o (IF RLt(RInt(20), mp[2]) THEN <<RecVerify>> ELSE <<>>))

\* the percentage taken of the target's price instead of the estimate
PriceDifferencePercentage_OfTarget(target_price, price_difference, market_estimate) ==
    IF market_estimate.n > 0
    THEN RMul(RDiv(price_difference, target_price), RInt(100))
    ELSE RZero

\* (price_difference / market_estimate) * 100 if market_estimate > 0 else 0
PriceDifferencePercentage(target_price, price_difference, market_estimate) ==
    IF market_estimate.n > 0
    THEN RMul(RDiv(price_difference, market_estimate), RInt(100))
    ELSE RZero

\* a PropertyAnalysis, or Raised(e) when the confidence score faults
_analyze_target_property(target, comparable) ==
    Let2(target, comparable, LAMBDA t, props :
        Let2(RInt(t.pricing.sale_price),
             _calculate_market_price_estimate(props, t.characteristics),
             LAMBDA target_price, market_estimate :
            Let(RSub(target_price, market_estimate), LAMBDA price_difference :
                Let2(PriceDifferencePercentage(target_price, price_difference, market_estimate),
                     _calculate_confidence_score(props, t.characteristics),
                     LAMBDA price_difference_percentage, confidence_score :
                    Let2(RLt(RInt(10), price_difference_percentage),
                         RLt(price_difference_percentage, RInt(-10)),
                         LAMBDA is_overpriced, is_underpriced :
                        IF IsRaised(confidence_score)
                        THEN confidence_score
                        ELSE [property_id |-> t.property_id,
                              original_price |-> target_price,
                              market_price_estimate |-> market_estimate,
                              price_difference |-> price_difference,
                              price_difference_percentage |-> price_difference_percentage,
                              is_overpriced |-> is_overpriced,
                              is_underpriced |-> is_underpriced,
                              confidence_score |-> confidence_score,
                              comparable_properties_count |-> Len(props),
                              market_trend |-> _determine_market_trend(props),
                              recommendations |->
                                  _generate_recommendations(
                                      target_price, market_estimate,
                                      price_difference_percentage, is_overpriced,
                                      is_underpriced, confidence_score)])))))

ErrNoTarget == "ValueError: Target property not set"

ErrNoProperties == "ValueError: No properties available for comparison"

ErrNoComparables == "ValueError: No comparable properties found"

\* analyze_market clearing the stored results before its checks
analyze_market_Clears ==
    /\ IF target_property = None \/ properties = <<>>
       THEN /\ outcome' = IF target_property = None THEN ErrNoTarget ELSE ErrNoProperties
            /\ market_stats' = None
            /\ analysis_results' = None
            /\ UNCHANGED comparable_properties
       ELSE \E comparable \in {_filter_comparable_properties(target_property, properties)} :
                /\ comparable_properties' = comparable
                /\ IF comparable = <<>>
                   THEN /\ outcome' = ErrNoComparables
                        /\ market_stats' = None
                        /\ analysis_results' = None
                   ELSE \E result \in {_analyze_target_property(target_property, comparable)} :
                            /\ market_stats' = _calculate_market_statistics(comparable)
                            /\ IF IsRaised(result)
                               THEN /\ outcome' = result.raised
                                    /\ analysis_results' = None
                               ELSE /\ outcome' = "ok"
                                    /\ analysis_results' = result
    /\ UNCHANGED <<properties, target_property>>
    /\ UNCHANGED builderVars

\* RealEstateAnalyzer.analyze_market
analyze_market ==
    /\ IF target_property = None
       THEN /\ outcome' = ErrNoTarget
            /\ UNCHANGED <<market_stats, analysis_results, comparable_properties>>
       ELSE IF properties = <<>>
       THEN /\ outcome' = ErrNoProperties
            /\ UNCHANGED <<market_stats, analysis_results, comparable_properties>>
       ELSE \E comparable \in {_filter_comparable_properties(target_property, properties)} :
                /\ comparable_properties' = comparable
                /\ IF comparable = <<>>
                   THEN /\ outcome' = ErrNoComparables
                        /\ UNCHANGED <<market_stats, analysis_results>>
                   ELSE \E result \in {_analyze_target_property(target_property, comparable)} :
                            /\ market_stats' = _calculate_market_statistics(comparable)
                            /\ IF IsRaised(result)
                               THEN /\ outcome' = result.raised
                                    /\ UNCHANGED analysis_results
                               ELSE /\ outcome' = "ok"
                                    /\ analysis_results' = result
    /\ UNCHANGED <<properties, target_property>>
    /\ UNCHANGED builderVars

----------------------------------------------------------------------------
(* Inputs.  Prices are in units of one million pesos, areas in m2.  A pool *)
(* record's price_per_m2 is price / area (0 for area 0), as the record     *)
(* builders compute it.                                                    *)

\* the longest pool analysed
MaxPool == 3

Prop(type, sale, area, bedrooms, stratum, floor, price, dated) ==
    [property_id |-> "pool",
     characteristics |-> [property_type |-> type, sale_type |-> sale,
                          area_habitable |-> area, bedrooms |-> bedrooms,
                          stratum |-> stratum, floor |-> floor],
     pricing |-> [sale_price |-> price,
                  price_per_m2 |-> IF area > 0 THEN Rat(price, area) ELSE RZero],
     metadata |-> IF dated
                  THEN [source_portal |-> "portal", listing_date |-> "2025-01-27"]
                  ELSE [source_portal |-> "portal"]]

\* a record whose characteristics carry the two identifying fields only
BareProp(type, sale, price) ==
    [property_id |-> "pool",
     characteristics |-> [property_type |-> type, sale_type |-> sale],
     pricing |-> [sale_price |-> price, price_per_m2 |-> RZero]]

Target(area, floor, price) ==
    [property_id |-> "target",
     characteristics |-> [property_type |-> "apartment", sale_type |-> "sale",
                          area_habitable |-> area, bedrooms |-> 2,
                          stratum |-> 3, floor |-> floor],
     pricing |-> [sale_price |-> price,
                  price_per_m2 |-> IF area > 0 THEN Rat(price, area) ELSE RZero]]

BareTarget ==
    [property_id |-> "target",
     characteristics |-> [property_type |-> "apartment", sale_type |-> "sale"],
     pricing |-> [sale_price |-> 200, price_per_m2 |-> RZero]]

\* one candidate of every shape against targets of every shape
ShapeTargets == {Target(a, f, 200) : a \in {0, 10}, f \in {0, 2}} \cup {BareTarget}

ShapeCands ==
    {Prop(t, s, a, b, st, f, 200, TRUE) :
        t \in {"apartment", "house"}, s \in {"sale", "rent"},
        a \in {0, 6, 7, 10, 13, 14}, b \in 0..4, st \in 1..6, f \in {0, 1, 2, 5}}
    \cup {BareProp("apartment", "sale", 200), BareProp("house", "sale", 200)}

\* pools of several candidates that differ in price, area and listing date
PriceTargets == {Target(10, 2, 100), Target(10, 2, 230), Target(0, 2, 200)}

CoreCands ==
    {Prop("apartment", "sale", 10, 2, 3, 2, p, TRUE) : p \in {0, 200, 300}}
    \cup {Prop("apartment", "sale", 8, 2, 3, 2, 300, TRUE)}
    \cup {Prop("apartment", "sale", 10, 2, 3, 2, 100, FALSE)}
    \cup {Prop("house", "sale", 10, 2, 3, 2, 300, TRUE)}

SeqsUpTo(S, n) == UNION {[1..k -> S] : k \in 0..n}

\* the example of the module's __main__ block
ExampleRecord(id, area, price, price_per_m2) ==
    [property_id |-> id,
     characteristics |-> [property_type |-> "apartment", sale_type |-> "sale",
                          area_habitable |-> area, bedrooms |-> 3, bathrooms |-> 2,
                          stratum |-> 4],
     pricing |-> [sale_price |-> price, price_per_m2 |-> price_per_m2]]

sample_properties ==
    <<ExampleRecord("prop_1", 80, 250, Rat(3125, 1000)),
      ExampleRecord("prop_2", 75, 240, Rat(3200, 1000))>>

ExampleTarget == ExampleRecord("target_1", 85, 280, Rat(3294118, 1000000))

\* pools of up to MaxComparables comparable records of two kinds
MaxComparables == 11

ConfidencePools ==
    {[i \in 1..nk[1] |-> IF i <= nk[2] THEN Prop("apartment", "sale", 10, 2, 3, 2, 200, TRUE)
                                       ELSE Prop("apartment", "sale", 8, 2, 3, 2, 300, TRUE)] :
        nk \in {x \in (1..MaxComparables) \X (0..MaxComparables) : x[2] <= x[1]}}

Scenarios ==
    {<<ExampleTarget, sample_properties>>} \cup
    ({Target(10, 2, 230), Target(0, 2, 200)} \X ConfidencePools) \cup
    (ShapeTargets \X {<<c>> : c \in ShapeCands})
    \cup (PriceTargets \X SeqsUpTo(CoreCands, MaxPool))
    \cup ({None} \X SeqsUpTo({Prop("apartment", "sale", 10, 2, 3, 2, 200, TRUE)}, 1))

\* an analyzer after add_properties(pool) and set_target_property(target)
InitAnalysis ==
    /\ \E sc \in Scenarios : target_property = sc[1] /\ properties = sc[2]
    /\ analysis_results = None
    /\ market_stats = None
    /\ comparable_properties = <<>>
    /\ outcome = "init"
    /\ raw = None
    /\ built = None

SpecAnalysis == InitAnalysis /\ [][analyze_market]_vars

----------------------------------------------------------------------------
(* The analyzer's life: a fresh RealEstateAnalyzer, then any sequence of   *)
(* add_properties, set_target_property and analyze_market calls.           *)

\* the longest batch handed to one add_properties call
MaxBatch == 2

HouseTarget ==
    [property_id |-> "target2",
     characteristics |-> [property_type |-> "house", sale_type |-> "sale",
                          area_habitable |-> 10, bedrooms |-> 2, stratum |-> 3, floor |-> 2],
     pricing |-> [sale_price |-> 300, price_per_m2 |-> RInt(30)]]

LifeTargets == {Target(10, 2, 230), Target(0, 2, 100), HouseTarget}

LifeCands ==
    {Prop("apartment", "sale", 10, 2, 3, 2, 200, TRUE),
     Prop("apartment", "sale", 8, 3, 4, 1, 0, TRUE),
     Prop("house", "sale", 13, 2, 3, 2, 300, FALSE)}

\* RealEstateAnalyzer.__init__
Init ==
    /\ properties = <<>>
    /\ target_property = None
    /\ analysis_results = None
    /\ market_stats = None
    /\ comparable_properties = <<>>
    /\ outcome = "init"
    /\ raw = None
    /\ built = None

\* RealEstateAnalyzer.add_properties
add_properties(batch) ==
    /\ Len(properties) + Len(batch) <= MaxPool
    /\ properties' = properties \o batch
    /\ UNCHANGED <<target_property, analysis_results, market_stats,
                   comparable_properties, outcome>>
    /\ UNCHANGED builderVars

\* RealEstateAnalyzer.set_target_property
set_target_property(property_data) ==
    /\ target_property' = property_data
    /\ UNCHANGED <<properties, analysis_results, market_stats,
                   comparable_properties, outcome>>
    /\ UNCHANGED builderVars

Next ==
    \/ \E batch \in SeqsUpTo(LifeCands, MaxBatch) : add_properties(batch)
    \/ \E property_data \in LifeTargets : set_target_property(property_data)
    \/ analyze_market

Spec == Init /\ [][Next]_vars

----------------------------------------------------------------------------
(* The components that build a record's pricing.  A raw field is a Python  *)
(* value: a str, kept as the sequence of its characters ([str |-> chars]), *)
(* an int ([int |-> n]) or None; a key can also be absent from the dict.   *)

PyStr(chars) == [str |-> chars]

PyInt(n) == [int |-> n]

IsStr(v) == "str" \in DOMAIN v

IsInt(v) == "int" \in DOMAIN v

Digits == <<"0", "1", "2", "3", "4", "5", "6", "7", "8", "9">>

\* the regular expression class \d
IsDigit(c) == \E i \in 1..10 : Digits[i] = c

DigitVal(c) == (CHOOSE i \in 1..10 : Digits[i] = c) - 1

\* "not v": the values Python treats as false
Falsy(v) == v = None \/ v = PyStr(<<>>) \/ v = PyInt(0)

\* "a or b"
Or(a, b) == Let2(a, b, LAMBDA x, y : IF Falsy(x) THEN y ELSE x)

\* str(n) for an int n >= 0
RECURSIVE IntToChars(_)
IntToChars(n) ==
    IF n < 10 THEN <<Digits[n + 1]>>
    ELSE IntToChars(n \div 10) \o <<Digits[(n % 10) + 1]>>

\* str(v)
StrOf(v) ==
    Let(v, LAMBDA x :
        IF IsStr(x) THEN x.str
        ELSE IF IsInt(x) THEN IntToChars(x.int)
        ELSE <<"N", "o", "n", "e">>)

\* the number a string of digits spells (0 for the empty string)
RECURSIVE NumOf(_)
NumOf(ds) ==
    IF ds = <<>> THEN 0
    ELSE 10 * NumOf(SubSeq(ds, 1, Len(ds) - 1)) + DigitVal(ds[Len(ds)])

RECURSIVE Pow10(_)
Pow10(k) == IF k = 0 THEN 1 ELSE 10 * Pow10(k - 1)

\* the value of the decimal numeral with integer digits ip and fraction digits fp
Decimal(ip, fp) == Let2(ip, fp, LAMBDA i, f : Rat(NumOf(i \o f), Pow10(Len(f))))

\* the last index j >= i - 1 such that s[i..j] are all digits
RunEnd(s, i) ==
    CHOOSE j \in (i - 1)..Len(s) :
        /\ \A k \in i..j : IsDigit(s[k])
        /\ j = Len(s) \/ ~IsDigit(s[j + 1])

\* s.strip(), for the blank character " "
Strip(s) ==
    Let(s, LAMBDA x :
        IF \A i \in 1..Len(x) : x[i] = " "
        THEN <<>>
        ELSE SubSeq(x, CHOOSE i \in 1..Len(x) : x[i] # " " /\ \A k \in 1..(i - 1) : x[k] = " ",
                       CHOOSE j \in 1..Len(x) : x[j] # " " /\ \A k \in (j + 1)..Len(x) : x[k] = " "))

\* float(s) for a str s over digits, ".", ",", blanks and letters: the value
\* of a numeral with at least one digit and at most one ".", else ValueError
FloatOfChars(s) ==
    Let(Strip(s), LAMBDA t :
        IF /\ \A i \in 1..Len(t) : IsDigit(t[i]) \/ t[i] = "."
           /\ \E i \in 1..Len(t) : IsDigit(t[i])
           /\ Cardinality({i \in 1..Len(t) : t[i] = "."}) <= 1
        THEN Let(RunEnd(t, 1), LAMBDA j :
                Decimal(SubSeq(t, 1, j), SubSeq(t, j + 2, Len(t))))
        ELSE Raised("ValueError"))

\* float(v): an int converts, a str is parsed, None is a TypeError
Float(v) ==
    Let(v, LAMBDA x :
        IF IsInt(x) THEN RInt(x.int)
        ELSE IF IsStr(x) THEN FloatOfChars(x.str)
        ELSE Raised("TypeError"))

\* re.sub(r'[^\d.,]', '', s)
KeepNumeric(s) == SelectSeq(s, LAMBDA c : IsDigit(c) \/ c = "." \/ c = ",")

\* s.replace(',', '') and s.replace(',', '.')
DropCommas(s) == SelectSeq(s, LAMBDA c : c # ",")

CommasToDots(s) == Let(s, LAMBDA x : [i \in 1..Len(x) |-> IF x[i] = "," THEN "." ELSE x[i]])

\* len(s.split(',')[-1]) for a str holding a ","
LastFieldLen(s) ==
    Let(s, LAMBDA x : Len(x) - (CHOOSE i \in 1..Len(x) :
                                    x[i] = "," /\ \A k \in (i + 1)..Len(x) : x[k] # ","))

\* CSVConverter._parse_area: the first numeral \d+(\.\d+)? in str(area_str)
_parse_area(area_str) ==
    Let(area_str, LAMBDA v :
        IF Falsy(v) THEN RZero
        ELSE Let(StrOf(v), LAMBDA s :
                IF \A i \in 1..Len(s) : ~IsDigit(s[i])
                THEN RZero
                ELSE Let(CHOOSE i \in 1..Len(s) :
                             IsDigit(s[i]) /\ \A k \in 1..(i - 1) : ~IsDigit(s[k]),
                         LAMBDA i :
                    Let(RunEnd(s, i), LAMBDA j :
                        IF j + 2 <= Len(s) /\ s[j + 1] = "." /\ IsDigit(s[j + 2])
                        THEN Decimal(SubSeq(s, i, j), SubSeq(s, j + 2, RunEnd(s, j + 2)))
                        ELSE Decimal(SubSeq(s, i, j), <<>>)))))

\* CSVConverter._parse_price
_parse_price(price_str) ==
    Let(price_str, LAMBDA v :
        IF Falsy(v) THEN RZero
        ELSE Let(KeepNumeric(StrOf(v)), LAMBDA c :
                Let(IF (\E i \in 1..Len(c) : c[i] = ",") /\ (\E i \in 1..Len(c) : c[i] = ".")
                    THEN DropCommas(c)
                    ELSE IF \E i \in 1..Len(c) : c[i] = ","
                    THEN IF LastFieldLen(c) <= 2 THEN CommasToDots(c) ELSE DropCommas(c)
                    ELSE c,
                    LAMBDA price_clean :
                        Let(FloatOfChars(price_clean), LAMBDA f :
                            IF IsRaised(f) THEN RZero ELSE f))))

\* CSVConverter._parse_float
_parse_float(value) ==
    Let(value, LAMBDA v :
        IF Falsy(v) THEN RZero
        ELSE Let(FloatOfChars(StrOf(v)), LAMBDA f : IF IsRaised(f) THEN RZero ELSE f))

\* BasePortalAdapter._parse_number
_parse_number(value) ==
    Let(value, LAMBDA v :
        IF IsInt(v) THEN RInt(v.int)
        ELSE IF IsStr(v)
        THEN Let(FloatOfChars(DropCommas(KeepNumeric(v.str))), LAMBDA f :
                IF IsRaised(f) THEN RZero ELSE f)
        ELSE RZero)

\* CSVConverter._extract_area_habitable
_extract_area_habitable(raw_property) ==
    _parse_area(Or(Get(raw_property, "area", PyStr(<<>>)),
                   Get(raw_property, "area_habitable", PyStr(<<>>))))

\* CSVConverter._extract_area_total
_extract_area_total(raw_property) == _parse_area(Get(raw_property, "area_total", PyStr(<<>>)))

\* CSVConverter._extract_administration
_extract_administration(raw_property) ==
    _parse_float(Get(raw_property, "administration", PyStr(<<>>)))

\* total_price / area_habitable if area_habitable > 0 else 0
PerArea(total, area) == Let2(total, area, LAMBDA t, a : IF a.n > 0 THEN RDiv(t, a) ELSE RZero)

\* CSVConverter._extract_pricing
CSVConverter_extract_pricing(raw_property) ==
    Let2(_parse_price(Get(raw_property, "price", PyStr(<<>>))),
         _extract_area_habitable(raw_property),
         LAMBDA total_price, area_habitable :
        Let2(Let(_extract_area_total(raw_property), LAMBDA t :
                 IF t.n = 0 THEN area_habitable ELSE t),
             Float(Get(raw_property, "price_per_m2", PyInt(0))),
             LAMBDA area_total, orchestrator_price_per_m2 :
            Let(IF IsRaised(orchestrator_price_per_m2)
                THEN PerArea(total_price, area_habitable)
                ELSE IF orchestrator_price_per_m2.n > 0
                THEN orchestrator_price_per_m2
                ELSE PerArea(total_price, area_habitable),
                LAMBDA price_per_m2 :
                    [area |-> area_habitable,
                     price_per_m2 |-> price_per_m2,
                     total_area |-> area_total,
                     total_price_per_m2 |-> price_per_m2,
                     admin_per_m2 |->
                         PerArea(_extract_administration(raw_property), area_habitable)])))

\* BasePortalAdapter._extract_pricing
BasePortalAdapter_extract_pricing(raw_data) ==
    Let2(_parse_number(Get(raw_data, "sale_price", PyInt(0))),
         _parse_number(Get(raw_data, "area_habitable", PyInt(1))),
         LAMBDA sale_price, area_habitable :
            [sale_price |-> sale_price,
             price_per_m2 |-> PerArea(sale_price, area_habitable),
             administration |-> _parse_number(Get(raw_data, "administration", PyInt(0))),
             administration_per_m2 |->
                 PerArea(_parse_number(Get(raw_data, "administration", PyInt(0))),
                         area_habitable),
             rent_price |-> _parse_number(Get(raw_data, "rent_price", PyInt(0)))])

\* BasePortalAdapter._extract_characteristics, the field the pricing relates to
BasePortalAdapter_extract_characteristics(raw_data) ==
    [area_habitable |-> _parse_number(Get(raw_data, "area_habitable", PyInt(0))),
     area_total |-> _parse_number(Get(raw_data, "area_total", PyInt(0)))]

\* a built record as the claims read it: who built it, the habitable area
\* and the price it holds, and the price per area it carries
Record(by, habitable_area, price, price_per_m2) ==
    [by |-> by, habitable_area |-> habitable_area, price |-> price,
     price_per_m2 |-> price_per_m2]

\* the most records one sample request asks for
MaxCount == 2

\* min(count, 5): a request yields at most five sample records
SampleCap == 5

\* the raw records handed to the CSV converter
NoField == [k \in {} |-> None]

Field(key, values) == {[k \in {key} |-> v] : v \in values} \cup {NoField}

Merge(f, g) == [k \in DOMAIN f \cup DOMAIN g |-> IF k \in DOMAIN f THEN f[k] ELSE g[k]]

CsvRaws ==
    {Merge(Merge(p, a), Merge(h, m)) :
        p \in Field("price", {PyStr(<<"$", "2", "0", "0">>), PyStr(<<"1", ",", "2", "0", "0">>),
                              PyStr(<<"1", ",", "5">>), PyStr(<<>>)}),
        a \in Field("area", {PyStr(<<"8", "0", " ", "m", "2">>), PyStr(<<"0">>),
                             PyStr(<<"m", "2">>), PyStr(<<"7", ".", "5", "m">>), PyInt(40)}),
        h \in Field("area_habitable", {PyStr(<<"5", "0">>)}),
        m \in Field("price_per_m2", {PyInt(0), PyInt(25), PyStr(<<" ", "3", "0">>),
                                    PyStr(<<"m">>), None})}

\* the raw records a portal scraper hands to its adapter
PortalRaws ==
    {Merge(Merge(p, a), m) :
        p \in Field("sale_price", {PyInt(200), PyStr(<<"$", "1", ",", "2", "0", "0">>),
                                   PyStr(<<>>)}),
        a \in Field("area_habitable", {PyInt(0), PyInt(80), PyStr(<<"8", "0", " ", "m">>),
                                       PyStr(<<>>), None}),
        m \in Field("administration", {PyInt(40)})}

\* the search parameters of _generate_search_queries for a valid target:
\* int(base * 0.7) and int(base * 1.3) of its price and habitable area
SearchParams(base_price, base_area) ==
    [min_price |-> (7 * base_price) \div 10, max_price |-> (13 * base_price) \div 10,
     min_area |-> (7 * base_area) \div 10, max_area |-> (13 * base_area) \div 10]

SampleQueries ==
    {[search_params |-> SearchParams(10, base_area), count |-> count] :
        base_area \in {1, 2}, count \in 0..MaxCount}

Min(a, b) == IF a <= b THEN a ELSE b

\* the records one _generate_sample_properties call can yield: each price and
\* each area is the base plus a random.randint draw within the range
SampleRecords(query) ==
    LET sp == query.search_params
    IN  {Record("sample", RInt(area), RInt(price),
                IF area > 0 THEN Rat(price, area) ELSE RZero) :
            price \in sp.min_price..sp.max_price, area \in sp.min_area..sp.max_area}

InitPricing ==
    /\ raw \in {[by |-> "CSVConverter", data |-> r] : r \in CsvRaws}
         \cup {[by |-> "BasePortalAdapter", data |-> r] : r \in PortalRaws}
         \cup {[by |-> "sample", data |-> q] : q \in SampleQueries}
    /\ built = None
    /\ properties = <<>>
    /\ target_property = None
    /\ analysis_results = None
    /\ market_stats = None
    /\ comparable_properties = <<>>
    /\ outcome = "init"

\* CSVConverter._convert_single_property, the fields the claims read
_convert_single_property ==
    /\ raw.by = "CSVConverter" /\ built = None
    /\ \E pricing_data \in {CSVConverter_extract_pricing(raw.data)} :
          built' = [records |->
                       <<Record("CSVConverter", _extract_area_habitable(raw.data),
                                _parse_price(Get(raw.data, "price", PyStr(<<>>))),
                                pricing_data.price_per_m2)>>]
    /\ UNCHANGED raw
    /\ UNCHANGED analyzerVars

\* BasePortalAdapter._normalize_data, the fields the claims read
_normalize_data ==
    /\ raw.by = "BasePortalAdapter" /\ built = None
    /\ \E pricing \in {BasePortalAdapter_extract_pricing(raw.data)} :
          built' = [records |->
                       <<Record("BasePortalAdapter",
                                BasePortalAdapter_extract_characteristics(raw.data).area_habitable,
                                pricing.sale_price, pricing.price_per_m2)>>]
    /\ UNCHANGED raw
    /\ UNCHANGED analyzerVars

\* RealEstateWorkflow._generate_sample_properties
_generate_sample_properties ==
    /\ raw.by = "sample" /\ built = None
    /\ \E records \in [1..Min(raw.data.count, SampleCap) -> SampleRecords(raw.data)] :
          built' = [records |-> records]
    /\ UNCHANGED raw
    /\ UNCHANGED analyzerVars

NextPricing == _convert_single_property \/ _normalize_data \/ _generate_sample_properties

SpecPricing == InitPricing /\ [][NextPricing]_vars

----------------------------------------------------------------------------
(* RealEstateWorkflow.run_analysis (main_workflow.py), up to the analyzer. *)
(* run_analysis is a coroutine: it validates the target and builds the     *)
(* search queries, awaits the portals, and then hands the scraped          *)
(* properties and the target to the analyzer and calls analyze_market.     *)
(* raw holds the call's arguments and built the coroutine's position and   *)
(* locals.  The steps after the analysis follow in the next section.       *)

\* self.portals
PortalNames == <<"ciencuadras", "properati", "fincaraiz", "metrocuadrado">>

\* "not s" for a str-or-None value of dict.get
FalsyStr(s) == s = NoneStr \/ s = ""

\* RealEstateWorkflow._validate_property: the ValueError raised, or None
_validate_property(property_data) ==
    IF \E field \in {"property_id", "address", "characteristics", "pricing"} :
          field \notin DOMAIN property_data
    THEN Raised("ValueError: Missing required field")
    ELSE IF FalsyStr(Get(property_data.address, "street", NoneStr))
            \/ FalsyStr(Get(property_data.address, "city", NoneStr))
    THEN Raised("ValueError: Address must include street and city")
    ELSE IF FalsyStr(Get(property_data.characteristics, "property_type", NoneStr))
            \/ Get(property_data.characteristics, "area_habitable", 0) = 0
    THEN Raised("ValueError: Characteristics must include property_type and area_habitable")
    ELSE IF Get(property_data.pricing, "sale_price", 0) = 0
            \/ property_data.pricing.sale_price <= 0
    THEN Raised("ValueError: Pricing must include valid sale_price")
    ELSE None

\* RealEstateWorkflow._generate_search_queries: the search_params every
\* portal's query carries, or the KeyError of a subscript on a missing key
_generate_search_queries(target) ==
    Let2(target.address, target.characteristics, LAMBDA address, chars :
        IF "neighborhood" \notin DOMAIN address
        THEN Raised("KeyError: neighborhood")
        ELSE IF "sale_type" \notin DOMAIN chars
        THEN Raised("KeyError: sale_type")
        ELSE Merge(SearchParams(target.pricing.sale_price, chars.area_habitable),
                   [location |-> [neighborhood |-> address.neighborhood,
                                  city |-> address.city],
                    property_type |-> chars.property_type,
                    sale_type |-> chars.sale_type,
                    bedrooms |-> Get(chars, "bedrooms", 0),
                    stratum |-> Get(chars, "stratum", 3)]))

\* one record of _generate_sample_properties, the fields the analyzer and
\* the claims read; draw holds the record's random.randint results
SampleProperty(portal_name, search_params, draw) ==
    Let2(search_params.min_price + draw.price, search_params.min_area + draw.area,
         LAMBDA price, area :
        [property_id |-> portal_name,
         characteristics |-> [property_type |-> search_params.property_type,
                              sale_type |-> search_params.sale_type,
                              area_habitable |-> area,
                              bedrooms |-> search_params.bedrooms + draw.bedrooms,
                              bathrooms |-> 2 + draw.bathrooms,
                              stratum |-> search_params.stratum + draw.stratum,
                              floor |-> draw.floor],
         pricing |-> [sale_price |-> price,
                      price_per_m2 |-> IF area > 0 THEN Rat(price, area) ELSE RZero],
         metadata |-> [source_portal |-> portal_name]])

\* the random draws of one sample record that the model follows: the two
\* ends of the price and area ranges, a bedroom count one off or equal
Draws(search_params) ==
    {[price |-> 0, area |-> 0, bedrooms |-> -1, bathrooms |-> -1, stratum |-> 0, floor |-> 1],
     [price |-> search_params.max_price - search_params.min_price,
      area |-> search_params.max_area - search_params.min_area,
      bedrooms |-> 1, bathrooms |-> 1, stratum |-> 1, floor |-> 10],
     [price |-> 0, area |-> search_params.max_area - search_params.min_area,
      bedrooms |-> 0, bathrooms |-> 0, stratum |-> -1, floor |-> 2]}

\* the lists _scrape_all_portals can return: per portal, in the portals'
\* order, min(max_properties, 5) sample records
ScrapedLists(search_params, max_properties) ==
    Let(Min(max_properties, SampleCap), LAMBDA per_portal :
        {[i \in 1..(Len(PortalNames) * per_portal) |->
             SampleProperty(PortalNames[((i - 1) \div per_portal) + 1], search_params, d[i])] :
            d \in [1..(Len(PortalNames) * per_portal) -> Draws(search_params)]})

\* the targets handed to run_analysis: a complete record, and the record
\* with one field missing or falsy
WorkflowAddress == [street |-> "Calle 1", neighborhood |-> "Chapinero", city |-> "Bogota"]

WorkflowChars ==
    [property_type |-> "apartment", sale_type |-> "sale", area_habitable |-> 2,
     bedrooms |-> 2, bathrooms |-> 2, stratum |-> 3, floor |-> 2]

WorkflowPricing == [sale_price |-> 10, price_per_m2 |-> RInt(5)]

Without(dict, key) == [k \in DOMAIN dict \ {key} |-> dict[k]]

WorkflowTarget(address, chars, pricing) ==
    [property_id |-> "target", address |-> address, characteristics |-> chars,
     pricing |-> pricing]

WorkflowTargets ==
    {WorkflowTarget(WorkflowAddress, WorkflowChars, WorkflowPricing)}
    \cup {WorkflowTarget(WorkflowAddress, Without(WorkflowChars, key), WorkflowPricing) :
            key \in {"property_type", "sale_type", "area_habitable", "bedrooms",
                     "bathrooms", "stratum"}}
    \cup {WorkflowTarget(Without(WorkflowAddress, key), WorkflowChars, WorkflowPricing) :
            key \in {"street", "neighborhood"}}
    \cup {WorkflowTarget(WorkflowAddress, [WorkflowChars EXCEPT !.area_habitable = 0],
                         WorkflowPricing),
          WorkflowTarget(WorkflowAddress, WorkflowChars, Without(WorkflowPricing, "sale_price")),
          WorkflowTarget(WorkflowAddress, WorkflowChars,
                         [WorkflowPricing EXCEPT !.sale_price = 0]),
          Without(WorkflowTarget(WorkflowAddress, WorkflowChars, WorkflowPricing), "pricing"),
          Without(WorkflowTarget(WorkflowAddress, WorkflowChars, WorkflowPricing),
                  "characteristics")}

\* RealEstateWorkflow.__init__ and the arguments of one run_analysis call
InitWorkflow ==
    /\ raw \in {[by |-> "RealEstateWorkflow", data |-> t, max_properties_per_portal |-> c] :
                  t \in WorkflowTargets, c \in {0, 1}}
    /\ built = None
    /\ properties = <<>>
    /\ target_property = None
    /\ analysis_results = None
    /\ market_stats = None
    /\ comparable_properties = <<>>
    /\ outcome = "init"

\* run_analysis, steps 1 and 2
run_analysis_validate ==
    /\ raw.by = "RealEstateWorkflow" /\ built = None
    /\ \E invalid \in {_validate_property(raw.data)} :
          IF IsRaised(invalid)
          THEN built' = [success |-> FALSE, error |-> invalid.raised]
          ELSE \E search_params \in {_generate_search_queries(raw.data)} :
                  IF IsRaised(search_params)
                  THEN built' = [success |-> FALSE, error |-> search_params.raised]
                  ELSE built' = [search_queries |-> search_params]
    /\ UNCHANGED raw
    /\ UNCHANGED analyzerVars

\* run_analysis, step 3 and the first two statements of _perform_analysis
run_analysis_scrape ==
    /\ raw.by = "RealEstateWorkflow" /\ "search_queries" \in DOMAIN built
    /\ \E scraped_properties \in
            ScrapedLists(built.search_queries, raw.max_properties_per_portal) :
          /\ properties' = properties \o scraped_properties
          /\ built' = [scraped_properties |-> scraped_properties]
    /\ target_property' = raw.data
    /\ UNCHANGED <<analysis_results, market_stats, comparable_properties, outcome>>
    /\ UNCHANGED raw

\* _perform_analysis, the call self.analyzer.analyze_market()
run_analysis_analyze ==
    /\ raw.by = "RealEstateWorkflow" /\ "scraped_properties" \in DOMAIN built
    /\ outcome = "init"
    /\ analyze_market

NextWorkflow == run_analysis_validate \/ run_analysis_scrape \/ run_analysis_analyze

SpecWorkflow == InitWorkflow /\ [][NextWorkflow]_vars

----------------------------------------------------------------------------
(* RealEstateWorkflow.run_analysis to its return, and run_analysis called  *)
(* again on the same workflow.  __init__ creates one RealEstateAnalyzer    *)
(* and one ReportGenerator; every run_analysis call uses them.             *)
(* raw.output_dir is the set of files in the workflow's output directory,  *)
(* each the kind of report and the call that wrote it; raw.call counts the *)
(* run_analysis calls.  After the return built is the dict returned.       *)

MaxRuns == 2

ErrFormatNone == "TypeError: unsupported format string passed to NoneType.__format__"

\* RealEstateAnalyzer.get_market_summary
get_market_summary(stats, results) ==
    IF stats = None \/ results = None
    THEN NoField
    ELSE [market_statistics |->
              [mean_price |-> stats.mean_price,
               median_price |-> stats.median_price,
               price_range |-> stats.price_range,
               standard_deviation |-> stats.standard_deviation,
               coefficient_of_variation |-> stats.coefficient_of_variation,
               price_per_m2_mean |-> stats.price_per_m2_mean,
               price_per_m2_median |-> stats.price_per_m2_median],
          property_analysis |->
              [original_price |-> results.original_price,
               market_estimate |-> results.market_price_estimate,
               price_difference |-> results.price_difference,
               price_difference_percentage |-> results.price_difference_percentage,
               is_overpriced |-> results.is_overpriced,
               is_underpriced |-> results.is_underpriced,
               confidence_score |-> results.confidence_score,
               comparable_properties_count |-> results.comparable_properties_count,
               market_trend |-> results.market_trend],
          recommendations |-> results.recommendations]

\* ReportGenerator._generate_markdown_content: the TypeError of the format
\* spec ",.0f" applied to a price per m2 that is None, or None
_generate_markdown_content(target) ==
    IF Get(target.pricing, "price_per_m2", RZero) = None
    THEN Raised(ErrFormatNone)
    ELSE None

\* RealEstateWorkflow._generate_reports: the reports written, in the order
\* csv, markdown, json, and the exception that ended the step, if any.
\* generate_csv_report opens its file before it formats a row, and
\* generate_markdown_report builds its content before it opens its file.
_generate_reports(target) ==
    Let(_generate_markdown_content(target), LAMBDA content :
        IF IsRaised(content)
        THEN [written |-> {"csv"}, raised |-> content.raised]
        ELSE [written |-> {"csv", "markdown", "json"}])

\* RealEstateWorkflow._generate_summary, of the dict _perform_analysis returned
_generate_summary(market_summary) ==
    Let(Get(market_summary, "property_analysis", NoField), LAMBDA analysis :
        [total_properties_analyzed |-> Get(analysis, "comparable_properties_count", 0),
         market_price_estimate |-> Get(analysis, "market_price_estimate", RZero),
         price_difference_percentage |-> Get(analysis, "price_difference_percentage", RZero),
         is_overpriced |-> Get(analysis, "is_overpriced", FALSE),
         is_underpriced |-> Get(analysis, "is_underpriced", FALSE),
         confidence_score |-> Get(analysis, "confidence_score", RZero),
         market_trend |-> Get(analysis, "market_trend", "Unknown"),
         recommendations_count |-> Len(Get(market_summary, "recommendations", <<>>))])

\* the targets of the calls: a complete record and one whose price per m2
\* is None in the first call, a complete record and one that fails
\* validation in a later call
NoPricePerM2 == [WorkflowPricing EXCEPT !.price_per_m2 = None]

FirstTargets ==
    {WorkflowTarget(WorkflowAddress, WorkflowChars, WorkflowPricing),
     WorkflowTarget(WorkflowAddress, WorkflowChars, NoPricePerM2)}

RunTargets ==
    {WorkflowTarget(WorkflowAddress, WorkflowChars, WorkflowPricing),
     WorkflowTarget(Without(WorkflowAddress, "street"), WorkflowChars, WorkflowPricing)}

\* RealEstateWorkflow.__init__ and the arguments of the first call
InitWorkflowRuns ==
    /\ raw \in {[by |-> "RealEstateWorkflow", data |-> t, max_properties_per_portal |-> c,
                 call |-> 1, output_dir |-> {}] :
                  t \in FirstTargets, c \in {0, 1}}
    /\ built = None
    /\ properties = <<>>
    /\ target_property = None
    /\ analysis_results = None
    /\ market_stats = None
    /\ comparable_properties = <<>>
    /\ outcome = "init"

\* run_analysis, the return of _perform_analysis, steps 5 and 6, and the
\* except clause for a failing step 4 or 5
run_analysis_report ==
    /\ raw.by = "RealEstateWorkflow" /\ "call" \in DOMAIN raw
    /\ "scraped_properties" \in DOMAIN built
    /\ outcome # "init"
    /\ IF outcome # "ok"
       THEN /\ built' = [success |-> FALSE, error |-> outcome, target_property |-> raw.data]
            /\ UNCHANGED raw
       ELSE \E market_summary \in {get_market_summary(market_stats, analysis_results)},
               reports \in {_generate_reports(raw.data)} :
                /\ raw' = [raw EXCEPT !.output_dir =
                               @ \cup {[call |-> raw.call, report |-> kind] :
                                          kind \in reports.written}]
                /\ IF IsRaised(reports)
                   THEN built' = [success |-> FALSE, error |-> reports.raised,
                                  target_property |-> raw.data]
                   ELSE built' = [success |-> TRUE,
                                  target_property |-> raw.data,
                                  scraped_properties |-> built.scraped_properties,
                                  analysis_results |-> market_summary,
                                  report_files |-> reports.written,
                                  summary |-> _generate_summary(market_summary)]
    /\ UNCHANGED analyzerVars

\* the next run_analysis call on the same workflow, after the last returned
run_analysis_again ==
    /\ raw.by = "RealEstateWorkflow" /\ "call" \in DOMAIN raw
    /\ built # None /\ "success" \in DOMAIN built
    /\ raw.call < MaxRuns
    /\ \E t \in RunTargets, c \in {0, 1} :
          raw' = [raw EXCEPT !.data = t, !.max_properties_per_portal = c, !.call = @ + 1]
    /\ built' = None
    /\ outcome' = "init"
    /\ UNCHANGED <<properties, target_property, analysis_results, market_stats,
                   comparable_properties>>

NextWorkflowRuns ==
    \/ run_analysis_validate
    \/ run_analysis_scrape
    \/ run_analysis_analyze
    \/ run_analysis_report
    \/ run_analysis_again

SpecWorkflowRuns == InitWorkflowRuns /\ [][NextWorkflowRuns]_vars

----------------------------------------------------------------------------
(* FincaraizMapper (fincaraiz_mapper.py): one property record to a search  *)
(* URL.  The record's prices, areas and tolerances are Python numbers,     *)
(* kept as exact rationals; its counts (bedrooms, parking, floor, age) are *)
(* ints; a key can be absent from the dict.                                *)

\* self.price_tolerance = 0.25 and self.area_tolerance = 0.20
price_tolerance == Rat(1, 4)

area_tolerance == Rat(1, 5)

\* FincaraizMapper.__init__: the fields of a mapper that the model keeps as
\* state; the lookup tables are the definitions below
FincaraizMapper == [price_tolerance |-> price_tolerance, area_tolerance |-> area_tolerance]

\* int(x): truncation toward zero
IntOf(x) == IF x.n >= 0 THEN x.n \div x.d ELSE -((-x.n) \div x.d)

\* round(x): the nearest int, a tie going to the even one
Round(x) ==
    Let2(x.n \div x.d, 2 * (x.n % x.d), LAMBDA floor, twice_rest :
        IF twice_rest < x.d THEN floor
        ELSE IF twice_rest > x.d THEN floor + 1
        ELSE IF floor % 2 = 0 THEN floor ELSE floor + 1)

\* property_data.get('area_total', property_data.get('area_habitable', 0))
AreaOf(property_data) ==
    Get(property_data, "area_total", Get(property_data, "area_habitable", RZero))

\* FincaraizMapper._calculate_price_range
_calculate_price_range(self, property_data) ==
    Let2(Get(Get(property_data, "pricing", NoField), "price_per_m2", RZero),
         AreaOf(property_data), LAMBDA price_per_m2, area :
        Let(RDiv(Get(property_data, "price_tolerance", self.price_tolerance), RInt(100)),
            LAMBDA tolerance_decimal :
            IF price_per_m2 # RZero /\ area # RZero
            THEN Let(RMul(price_per_m2, area), LAMBDA total_price :
                     [precio_min |-> IntOf(RMul(total_price, RSub(ROne, tolerance_decimal))),
                      precio_max |-> IntOf(RMul(total_price, RAdd(ROne, tolerance_decimal)))])
            ELSE NoField))

\* FincaraizMapper._calculate_area_range
_calculate_area_range(self, property_data) ==
    Let2(AreaOf(property_data),
         RDiv(Get(property_data, "area_tolerance", self.area_tolerance), RInt(100)),
         LAMBDA area, tolerance_decimal :
            IF area # RZero
            THEN [area_min |-> Round(RMul(area, RSub(ROne, tolerance_decimal))),
                  area_max |-> Round(RMul(area, RAdd(ROne, tolerance_decimal)))]
            ELSE NoField)

(* Strings of the mapper.  A str the mapper assembles is the sequence of   *)
(* its pieces, each piece a fixed token of the code ("con-ascensor") or    *)
(* one character of an input or of a label that is transformed character   *)
(* by character; concatenation is \o.  Where a str can also be None it is  *)
(* wrapped as PyStr(pieces).                                               *)

\* sep.join(parts)
RECURSIVE Join(_, _)
Join(sep, parts) ==
    IF parts = <<>> THEN <<>>
    ELSE IF Len(parts) = 1 THEN Head(parts)
    ELSE Head(parts) \o <<sep>> \o Join(sep, Tail(parts))

\* s.split(sep) for a separator that is one piece
RECURSIVE Split(_, _)
Split(s, sep) ==
    IF \A i \in 1..Len(s) : s[i] # sep THEN <<s>>
    ELSE Let(CHOOSE i \in 1..Len(s) : s[i] = sep /\ \A j \in 1..(i - 1) : s[j] # sep,
             LAMBDA i : <<SubSeq(s, 1, i - 1)>> \o Split(SubSeq(s, i + 1, Len(s)), sep))

\* self.amenities_mapping, the entries _extract_amenities reads
amenities_mapping ==
    [elevator |-> "con-ascensor", balcony |-> "con-balcon", garden |-> "con-jardin",
     closet |-> "con-closet", study |-> "con-estudio", loft |-> "con-loft",
     parking |-> "con-parqueadero", deposit |-> "con-deposito"]

\* self.construction_age_mapping
construction_age_mapping ==
    ("nuevo" :> <<"M", "e", "n", "o", "r", " ", "a", " ", "1", " ", "a", "ñ", "o">>)
    @@ ("semi-nuevo" :> <<"D", "e", " ", "1", " ", "a", " ", "8", " ", "a", "ñ", "o", "s">>)
    @@ ("usado" :> <<"D", "e", " ", "9", " ", "a", " ", "1", "5", " ", "a", "ñ", "o", "s">>)
    @@ ("antiguo" :>
          <<"D", "e", " ", "1", "6", " ", "a", " ", "3", "0", " ", "a", "ñ", "o", "s">>)
    @@ ("muy_antiguo" :>
          <<"M", "á", "s", " ", "d", "e", " ", "3", "0", " ", "a", "ñ", "o", "s">>)

\* self.publication_date_mapping
publication_date_mapping ==
    ("Indiferente" :> "") @@ ("Hoy" :> "publicado-hoy")
    @@ ("Desde ayer" :> "publicado-desde-ayer")
    @@ ("Última Semana" :> "publicado-ultimos-7-dias")
    @@ ("Últimos 15 días" :> "publicado-ultimos-15-dias")
    @@ ("Últimos 30 días" :> "publicado-ultimos-30-dias")
    @@ ("Últimos 40 días" :> "publicado-ultimos-40-dias")

\* self.operation_mapping
operation_mapping == ("ARRIENDO" :> "arriendo") @@ ("VENTA" :> "venta")

\* self.property_type_mapping
property_type_mapping ==
    ("Casa" :> "casas") @@ ("Apartamento" :> "apartamentos")
    @@ ("Apartaestudio" :> "apartaestudios") @@ ("Cabaña" :> "cabanas")
    @@ ("Casa Campestre" :> "casas-campestres") @@ ("Casa Lote" :> "casas-lote")
    @@ ("Finca" :> "fincas") @@ ("Habitación" :> "habitaciones") @@ ("Lote" :> "lotes")
    @@ ("Bodega" :> "bodegas") @@ ("Consultorio" :> "consultorios")
    @@ ("Local" :> "locales") @@ ("Oficina" :> "oficinas")
    @@ ("Parqueadero" :> "parqueaderos") @@ ("Edificio" :> "edificios")
    @@ ("apartment" :> "apartamentos") @@ ("house" :> "casas")
    @@ ("studio" :> "apartaestudios") @@ ("commercial" :> "comercial")
    @@ ("office" :> "oficinas") @@ ("warehouse" :> "bodegas")

\* self.floor_mapping
floor_mapping ==
    [ground |-> "Primer Piso", low |-> "2do al 5to piso", mid |-> "6to al 10mo piso",
     high |-> "+10mo piso", penthouse |-> "Penthouse"]

\* FincaraizMapper._map_construction_age
_map_construction_age(age) ==
    IF RLt(age, RInt(1)) THEN "nuevo"
    ELSE IF RLe(age, RInt(8)) THEN "semi-nuevo"
    ELSE IF RLe(age, RInt(15)) THEN "usado"
    ELSE IF RLe(age, RInt(30)) THEN "antiguo"
    ELSE "muy_antiguo"

\* FincaraizMapper._map_floor_to_category
_map_floor_to_category(floor) ==
    IF floor = RInt(1) THEN floor_mapping.ground
    ELSE IF RLe(RInt(2), floor) /\ RLe(floor, RInt(5)) THEN floor_mapping.low
    ELSE IF RLe(RInt(6), floor) /\ RLe(floor, RInt(10)) THEN floor_mapping.mid
    ELSE IF RLt(RInt(10), floor) THEN floor_mapping.high
    ELSE floor_mapping.ground

\* "if x:" for a number of the record, None included
Truthy(x) == x # None /\ x # RZero

\* FincaraizMapper._extract_amenities: the joined tokens, None when there is
\* none, or the TypeError of comparing None with a number
_extract_amenities_TwoBalconies(property_data) ==
    Let2(Get(property_data, "area_total", RZero), Get(property_data, "terrace_area", RZero),
         LAMBDA area_total, terrace_area :
        IF (~Get(property_data, "terrace", FALSE) /\ terrace_area = None)
           \/ area_total = None
           \/ Get(property_data, "parking", RZero) = None
           \/ Get(property_data, "deposit", RZero) = None
        THEN Raised("TypeError")
        ELSE Let((IF Get(property_data, "elevator", FALSE)
                  THEN <<<<amenities_mapping.elevator>>>> ELSE <<>>)
                 \o (IF Get(property_data, "terrace", FALSE)
                     THEN <<<<amenities_mapping.balcony>>>> ELSE <<>>)
                 \o (IF terrace_area # None /\ RLt(RZero, terrace_area)
                     THEN <<<<amenities_mapping.balcony>>>> ELSE <<>>)
                 \o (IF Get(property_data, "walking_closet", FALSE)
                     THEN <<<<amenities_mapping.closet>>>> ELSE <<>>)
                 \o (IF Get(property_data, "study_room", FALSE)
                     THEN <<<<amenities_mapping.study>>>> ELSE <<>>)
                 \o (IF Get(property_data, "loft", FALSE)
                     THEN <<<<amenities_mapping.loft>>>> ELSE <<>>)
                 \o (IF RLt(RInt(100), area_total)
                     THEN <<<<amenities_mapping.garden>>>> ELSE <<>>)
                 \o (IF RLt(RZero, Get(property_data, "parking", RZero))
                     THEN <<<<amenities_mapping.parking>>>> ELSE <<>>)
                 \o (IF RLt(RZero, Get(property_data, "deposit", RZero))
                     THEN <<<<amenities_mapping.deposit>>>> ELSE <<>>),
                 LAMBDA amenities :
                    IF amenities # <<>> THEN PyStr(Join("-y-", amenities)) ELSE None))

_extract_amenities(property_data) ==
    Let2(Get(property_data, "area_total", RZero), Get(property_data, "terrace_area", RZero),
         LAMBDA area_total, terrace_area :
        IF (~Get(property_data, "terrace", FALSE) /\ terrace_area = None)
           \/ area_total = None
           \/ Get(property_data, "parking", RZero) = None
           \/ Get(property_data, "deposit", RZero) = None
        THEN Raised("TypeError")
        ELSE Let((IF Get(property_data, "elevator", FALSE)
                  THEN <<<<amenities_mapping.elevator>>>> ELSE <<>>)
                 \o (IF Get(property_data, "terrace", FALSE)
                        \/ RLt(RZero, terrace_area)
                     THEN <<<<amenities_mapping.balcony>>>> ELSE <<>>)
                 \o (IF Get(property_data, "walking_closet", FALSE)
                     THEN <<<<amenities_mapping.closet>>>> ELSE <<>>)
                 \o (IF Get(property_data, "study_room", FALSE)
                     THEN <<<<amenities_mapping.study>>>> ELSE <<>>)
                 \o (IF Get(property_data, "loft", FALSE)
                     THEN <<<<amenities_mapping.loft>>>> ELSE <<>>)
                 \o (IF RLt(RInt(100), area_total)
                     THEN <<<<amenities_mapping.garden>>>> ELSE <<>>)
                 \o (IF RLt(RZero, Get(property_data, "parking", RZero))
                     THEN <<<<amenities_mapping.parking>>>> ELSE <<>>)
                 \o (IF RLt(RZero, Get(property_data, "deposit", RZero))
                     THEN <<<<amenities_mapping.deposit>>>> ELSE <<>>),
                 LAMBDA amenities :
                    IF amenities # <<>> THEN PyStr(Join("-y-", amenities)) ELSE None))

\* FincaraizMapper._extract_characteristics
_extract_characteristics(property_data) ==
    Let2(Get(property_data, "stratum", None), Get(property_data, "construction_age", None),
         LAMBDA stratum, construction_age :
        Merge(IF Truthy(stratum) THEN [estrato |-> stratum] ELSE NoField,
              Merge(IF Truthy(construction_age)
                    THEN [antiguedad |-> _map_construction_age(construction_age)]
                    ELSE NoField,
                    IF Get(property_data, "elevator", FALSE) THEN [ascensor |-> "si"]
                    ELSE NoField)))

\* FincaraizMapper._extract_advanced_filters, or the TypeError of
\* _extract_amenities
_extract_advanced_filters(property_data) ==
    Let(_extract_amenities(property_data), LAMBDA amenities :
        IF IsRaised(amenities) THEN amenities
        ELSE Let2(Get(property_data, "parking", RZero), Get(property_data, "floor", None),
                  LAMBDA parking, floor :
            Let(Get(property_data, "construction_age", None), LAMBDA construction_age :
                Merge(IF amenities # None THEN [amenities |-> amenities.str] ELSE NoField,
                Merge(IF Truthy(parking) /\ RLt(RZero, parking)
                      THEN [parking_spaces |-> <<ToString(parking.n), "-parqueaderos">>]
                      ELSE NoField,
                Merge(IF Truthy(floor) /\ RLt(RZero, floor)
                      THEN [floor |-> _map_floor_to_category(floor)] ELSE NoField,
                Merge(IF Truthy(construction_age)
                      THEN [construction_age |->
                              Get(construction_age_mapping,
                                  _map_construction_age(construction_age),
                                  <<"u", "s", "a", "d", "o", "s">>)]
                      ELSE NoField,
                      [property_status |-> "edificados",
                       publication_date |->
                          Get(publication_date_mapping,
                              Get(property_data, "publication_date", "Última Semana"),
                              "publicado-ultimos-7-dias")])))))))

\* self.base_url and self.fixed_city
base_url == "https://www.fincaraiz.com.co"

fixed_city == "bogota-dc"

(* An address is a str kept as the sequence of its characters.  The model's *)
(* addresses are written with the letters A-Z, a-z and ñ, digits, blanks,   *)
(* commas and #; the only whitespace is the blank.                          *)

\* the letters A-Z and a-z: str.lower() and the class [a-zA-Z]
UpperLetters ==
    <<"A", "B", "C", "D", "E", "F", "G", "H", "I", "J", "K", "L", "M",
      "N", "O", "P", "Q", "R", "S", "T", "U", "V", "W", "X", "Y", "Z">>

LowerLetters ==
    <<"a", "b", "c", "d", "e", "f", "g", "h", "i", "j", "k", "l", "m",
      "n", "o", "p", "q", "r", "s", "t", "u", "v", "w", "x", "y", "z">>

\* str.lower() on one character (a piece that is no upper-case letter stays)
Lower(c) ==
    IF \E i \in 1..26 : UpperLetters[i] = c
    THEN LowerLetters[CHOOSE i \in 1..26 : UpperLetters[i] = c]
    ELSE IF c = "Ñ" THEN "ñ" ELSE c

LowerStr(s) == [i \in 1..Len(s) |-> Lower(s[i])]

IsLetter(c) == \E i \in 1..26 : UpperLetters[i] = c \/ LowerLetters[i] = c

\* "key in s" for two strs
IsSubstring(key, s) ==
    \E i \in 1..(Len(s) - Len(key) + 1) : SubSeq(s, i, i + Len(key) - 1) = key

\* self.zone_mapping, its entries <<key, value>> in the order of the dict
zone_mapping ==
    <<<<<<"u", "s", "a", "q", "u", "e", "n">>,
        <<"u", "s", "a", "q", "u", "e", "n">>>>,
      <<<<"c", "h", "a", "p", "i", "n", "e", "r", "o">>,
        <<"c", "h", "a", "p", "i", "n", "e", "r", "o">>>>,
      <<<<"s", "a", "n", "t", "a", " ", "f", "e">>,
        <<"s", "a", "n", "t", "a", "-", "f", "e">>>>,
      <<<<"s", "a", "n", " ", "c", "r", "i", "s", "t", "o", "b", "a", "l">>,
        <<"s", "a", "n", "-", "c", "r", "i", "s", "t", "o", "b", "a", "l">>>>,
      <<<<"u", "s", "m", "e">>,
        <<"u", "s", "m", "e">>>>,
      <<<<"t", "u", "n", "j", "u", "e", "l", "i", "t", "o">>,
        <<"t", "u", "n", "j", "u", "e", "l", "i", "t", "o">>>>,
      <<<<"b", "o", "s", "a">>,
        <<"b", "o", "s", "a">>>>,
      <<<<"k", "e", "n", "n", "e", "d", "y">>,
        <<"k", "e", "n", "n", "e", "d", "y">>>>,
      <<<<"f", "o", "n", "t", "i", "b", "o", "n">>,
        <<"f", "o", "n", "t", "i", "b", "o", "n">>>>,
      <<<<"e", "n", "g", "a", "t", "i", "v", "a">>,
        <<"e", "n", "g", "a", "t", "i", "v", "a">>>>,
      <<<<"s", "u", "b", "a">>,
        <<"s", "u", "b", "a">>>>,
      <<<<"b", "a", "r", "r", "i", "o", "s", " ", "u", "n", "i", "d", "o", "s">>,
        <<"b", "a", "r", "r", "i", "o", "s", "-", "u", "n", "i", "d", "o", "s">>>>,
      <<<<"t", "e", "u", "s", "a", "q", "u", "i", "l", "l", "o">>,
        <<"t", "e", "u", "s", "a", "q", "u", "i", "l", "l", "o">>>>,
      <<<<"l", "o", "s", " ", "m", "a", "r", "t", "i", "r", "e", "s">>,
        <<"l", "o", "s", "-", "m", "a", "r", "t", "i", "r", "e", "s">>>>,
      <<<<"a", "n", "t", "o", "n", "i", "o", " ", "n", "a", "r", "i", "ñ", "o">>,
        <<"a", "n", "t", "o", "n", "i", "o", "-", "n", "a", "r", "i", "n", "o">>>>,
      <<<<"p", "u", "e", "n", "t", "e", " ", "a", "r", "a", "n", "d", "a">>,
        <<"p", "u", "e", "n", "t", "e", "-", "a", "r", "a", "n", "d", "a">>>>,
      <<<<"c", "a", "n", "d", "e", "l", "a", "r", "i", "a">>,
        <<"c", "a", "n", "d", "e", "l", "a", "r", "i", "a">>>>,
      <<<<"r", "a", "f", "a", "e", "l", " ", "u", "r", "i", "b", "e", " ", "u", "r", "i", "b", "e">>,
        <<"r", "a", "f", "a", "e", "l", "-", "u", "r", "i", "b", "e", "-", "u", "r", "i", "b", "e">>>>,
      <<<<"c", "i", "u", "d", "a", "d", " ", "b", "o", "l", "i", "v", "a", "r">>,
        <<"c", "i", "u", "d", "a", "d", "-", "b", "o", "l", "i", "v", "a", "r">>>>,
      <<<<"s", "u", "m", "a", "p", "a", "z">>,
        <<"s", "u", "m", "a", "p", "a", "z">>>>>>

\* self.neighborhood_mapping, its entries <<key, value>> in the order of the dict
\* (a key written twice keeps its first position)
neighborhood_mapping ==
    <<<<<<"c", "e", "d", "r", "i", "t", "o", "s">>,
        <<"c", "e", "d", "r", "i", "t", "o", "s">>>>,
      <<<<"n", "i", "z", "a">>,
        <<"n", "i", "z", "a">>>>,
      <<<<"s", "u", "b", "a">>,
        <<"s", "u", "b", "a">>>>,
      <<<<"c", "a", "j", "i", "c", "a">>,
        <<"c", "a", "j", "i", "c", "a">>>>,
      <<<<"c", "h", "i", "c", "o">>,
        <<"c", "h", "i", "c", "o">>>>,
      <<<<"r", "o", "s", "a", "l", "e", "s">>,
        <<"r", "o", "s", "a", "l", "e", "s">>>>,
      <<<<"z", "o", "n", "a", " ", "r", "o", "s", "a">>,
        <<"z", "o", "n", "a", "-", "r", "o", "s", "a">>>>,
      <<<<"c", "h", "a", "p", "i", "n", "e", "r", "o">>,
        <<"c", "h", "a", "p", "i", "n", "e", "r", "o">>>>,
      <<<<"t", "e", "u", "s", "a", "q", "u", "i", "l", "l", "o">>,
        <<"t", "e", "u", "s", "a", "q", "u", "i", "l", "l", "o">>>>,
      <<<<"l", "a", " ", "m", "a", "c", "a", "r", "e", "n", "a">>,
        <<"l", "a", "-", "m", "a", "c", "a", "r", "e", "n", "a">>>>,
      <<<<"c", "a", "n", "d", "e", "l", "a", "r", "i", "a">>,
        <<"c", "a", "n", "d", "e", "l", "a", "r", "i", "a">>>>,
      <<<<"l", "a", " ", "c", "a", "n", "d", "e", "l", "a", "r", "i", "a">>,
        <<"l", "a", "-", "c", "a", "n", "d", "e", "l", "a", "r", "i", "a">>>>,
      <<<<"s", "a", "n", "t", "a", " ", "f", "e">>,
        <<"s", "a", "n", "t", "a", "-", "f", "e">>>>,
      <<<<"l", "o", "s", " ", "m", "a", "r", "t", "i", "r", "e", "s">>,
        <<"l", "o", "s", "-", "m", "a", "r", "t", "i", "r", "e", "s">>>>,
      <<<<"a", "n", "t", "o", "n", "i", "o", " ", "n", "a", "r", "i", "ñ", "o">>,
        <<"a", "n", "t", "o", "n", "i", "o", "-", "n", "a", "r", "i", "n", "o">>>>,
      <<<<"p", "u", "e", "n", "t", "e", " ", "a", "r", "a", "n", "d", "a">>,
        <<"p", "u", "e", "n", "t", "e", "-", "a", "r", "a", "n", "d", "a">>>>,
      <<<<"k", "e", "n", "n", "e", "d", "y">>,
        <<"k", "e", "n", "n", "e", "d", "y">>>>,
      <<<<"b", "o", "s", "a">>,
        <<"b", "o", "s", "a">>>>,
      <<<<"f", "o", "n", "t", "i", "b", "o", "n">>,
        <<"f", "o", "n", "t", "i", "b", "o", "n">>>>,
      <<<<"e", "n", "g", "a", "t", "i", "v", "a">>,
        <<"e", "n", "g", "a", "t", "i", "v", "a">>>>,
      <<<<"b", "a", "r", "r", "i", "o", "s", " ", "u", "n", "i", "d", "o", "s">>,
        <<"b", "a", "r", "r", "i", "o", "s", "-", "u", "n", "i", "d", "o", "s">>>>,
      <<<<"t", "u", "n", "j", "u", "e", "l", "i", "t", "o">>,
        <<"t", "u", "n", "j", "u", "e", "l", "i", "t", "o">>>>,
      <<<<"u", "s", "m", "e">>,
        <<"u", "s", "m", "e">>>>,
      <<<<"s", "a", "n", " ", "c", "r", "i", "s", "t", "o", "b", "a", "l">>,
        <<"s", "a", "n", "-", "c", "r", "i", "s", "t", "o", "b", "a", "l">>>>,
      <<<<"r", "a", "f", "a", "e", "l", " ", "u", "r", "i", "b", "e", " ", "u", "r", "i", "b", "e">>,
        <<"r", "a", "f", "a", "e", "l", "-", "u", "r", "i", "b", "e", "-", "u", "r", "i", "b", "e">>>>,
      <<<<"c", "i", "u", "d", "a", "d", " ", "b", "o", "l", "i", "v", "a", "r">>,
        <<"c", "i", "u", "d", "a", "d", "-", "b", "o", "l", "i", "v", "a", "r">>>>,
      <<<<"u", "s", "a", "q", "u", "e", "n">>,
        <<"u", "s", "a", "q", "u", "e", "n">>>>>>

\* "name in mapping" and "mapping[name]"
HasKey(mapping, name) == \E k \in 1..Len(mapping) : mapping[k][1] = name

ValueOf(mapping, name) == mapping[CHOOSE k \in 1..Len(mapping) : mapping[k][1] = name][2]

\* "for key, value in mapping.items(): if key in s: return value", or None
FirstMatch_Last(mapping, s) ==
    IF \E k \in 1..Len(mapping) : IsSubstring(mapping[k][1], s)
    THEN PyStr(mapping[CHOOSE k \in 1..Len(mapping) :
                           /\ IsSubstring(mapping[k][1], s)
                           /\ \A j \in (k + 1)..Len(mapping) : ~IsSubstring(mapping[j][1], s)][2])
    ELSE None

FirstMatch(mapping, s) ==
    IF \E k \in 1..Len(mapping) : IsSubstring(mapping[k][1], s)
    THEN PyStr(mapping[CHOOSE k \in 1..Len(mapping) :
                           /\ IsSubstring(mapping[k][1], s)
                           /\ \A j \in 1..(k - 1) : ~IsSubstring(mapping[j][1], s)][2])
    ELSE None

\* s.split(), for the blank character " "
RECURSIVE Words(_)
Words(s) ==
    IF s = <<>> THEN <<>>
    ELSE IF Head(s) = " " THEN Words(Tail(s))
    ELSE Let(CHOOSE n \in 1..Len(s) :
                 /\ \A j \in 1..n : s[j] # " "
                 /\ n = Len(s) \/ s[n + 1] = " ",
             LAMBDA n : <<SubSeq(s, 1, n)>> \o Words(SubSeq(s, n + 1, Len(s))))

\* s.rstrip(',')
RECURSIVE RStripComma(_)
RStripComma(s) ==
    IF s # <<>> /\ s[Len(s)] = "," THEN RStripComma(SubSeq(s, 1, Len(s) - 1)) ELSE s

\* the indicator words of the address rules
Barrio == <<"b", "a", "r", "r", "i", "o">>

Sector == <<"s", "e", "c", "t", "o", "r">>

Zona == <<"z", "o", "n", "a">>

Localidad == <<"l", "o", "c", "a", "l", "i", "d", "a", "d">>

\* group(1) of the pattern <indicator>\s+([a-zA-Z\s]+) matched at position i
\* of s, case ignored, or None: the blanks after the indicator, then the
\* longest run of letters and blanks; when no letter follows the blanks the
\* pattern gives the last of two or more blanks to the group
GroupAt(indicator, s, i) ==
    Let(i + Len(indicator), LAMBDA p :
        IF /\ p <= Len(s)
           /\ LowerStr(SubSeq(s, i, p - 1)) = indicator
           /\ s[p] = " "
        THEN Let(CHOOSE e \in p..Len(s) :
                     /\ \A k \in p..e : s[k] = " "
                     /\ e = Len(s) \/ s[e + 1] # " ",
                 LAMBDA e :
                    IF e < Len(s) /\ IsLetter(s[e + 1])
                    THEN PyStr(SubSeq(s, e + 1,
                                      CHOOSE j \in (e + 1)..Len(s) :
                                          /\ \A k \in (e + 1)..j : IsLetter(s[k]) \/ s[k] = " "
                                          /\ j = Len(s)
                                             \/ ~(IsLetter(s[j + 1]) \/ s[j + 1] = " ")))
                    ELSE IF e > p THEN PyStr(<<" ">>)
                    ELSE None)
        ELSE None)

\* re.search(r'(?:i1|i2|...)\s+([a-zA-Z\s]+)', s, re.IGNORECASE): group(1) of
\* the leftmost match, or None
Search(indicators, s) ==
    Let({<<i, n>> \in (1..Len(s)) \X (1..Len(indicators)) :
             GroupAt(indicators[n], s, i) # None},
        LAMBDA matches :
            IF matches = {} THEN None
            ELSE Let(CHOOSE m \in matches : \A o \in matches : m[1] <= o[1],
                     LAMBDA m : GroupAt(indicators[m[2]], s, m[1])))

\* FincaraizMapper._extract_neighborhood_from_address
_extract_neighborhood_from_address(address) ==
    Let2(FirstMatch(neighborhood_mapping, LowerStr(address)), Words(address),
         LAMBDA known, words :
        IF known # None THEN known
        ELSE IF \E i \in 1..(Len(words) - 1) :
                    LowerStr(words[i]) \in {Barrio, Sector, Zona, Localidad}
        THEN Let(CHOOSE i \in 1..(Len(words) - 1) :
                     /\ LowerStr(words[i]) \in {Barrio, Sector, Zona, Localidad}
                     /\ \A j \in 1..(i - 1) :
                            LowerStr(words[j]) \notin {Barrio, Sector, Zona, Localidad},
                 LAMBDA i :
                    Let(RStripComma(LowerStr(words[i + 1])), LAMBDA neighborhood :
                        IF HasKey(neighborhood_mapping, neighborhood)
                        THEN PyStr(ValueOf(neighborhood_mapping, neighborhood))
                        ELSE PyStr(neighborhood)))
        ELSE Let(Search(<<Barrio, Sector, Zona>>, address), LAMBDA match :
                 IF match # None
                 THEN Let(RStripComma(LowerStr(Strip(match.str))), LAMBDA neighborhood :
                          IF HasKey(neighborhood_mapping, neighborhood)
                          THEN PyStr(ValueOf(neighborhood_mapping, neighborhood))
                          ELSE PyStr(neighborhood))
                 ELSE None))

\* "any(nb in neighborhood_lower for nb in names)"
AnyIn(names, s) == \E nb \in names : IsSubstring(nb, s)

Kennedy == <<"k", "e", "n", "n", "e", "d", "y">>

Bosa == <<"b", "o", "s", "a">>

Fontibon == <<"f", "o", "n", "t", "i", "b", "o", "n">>

Engativa == <<"e", "n", "g", "a", "t", "i", "v", "a">>

Tunjuelito == <<"t", "u", "n", "j", "u", "e", "l", "i", "t", "o">>

Usme == <<"u", "s", "m", "e">>

Usaquen == <<"u", "s", "a", "q", "u", "e", "n">>

Chapinero == <<"c", "h", "a", "p", "i", "n", "e", "r", "o">>

\* FincaraizMapper._map_neighborhood_to_zone
_map_neighborhood_to_zone(neighborhood) ==
    Let(LowerStr(neighborhood), LAMBDA neighborhood_lower :
        IF AnyIn({<<"c", "e", "d", "r", "i", "t", "o", "s">>, <<"n", "i", "z", "a">>,
                  <<"s", "u", "b", "a">>, <<"c", "a", "j", "i", "c", "a">>,
                  <<"c", "h", "i", "c", "o">>, <<"r", "o", "s", "a", "l", "e", "s">>,
                  <<"z", "o", "n", "a", " ", "r", "o", "s", "a">>}, neighborhood_lower)
        THEN PyStr(Usaquen)
        ELSE IF AnyIn({Chapinero, <<"t", "e", "u", "s", "a", "q", "u", "i", "l", "l", "o">>,
                       <<"l", "a", " ", "m", "a", "c", "a", "r", "e", "n", "a">>,
                       <<"c", "a", "n", "d", "e", "l", "a", "r", "i", "a">>,
                       <<"l", "a", " ", "c", "a", "n", "d", "e", "l", "a", "r", "i", "a">>},
                      neighborhood_lower)
        THEN PyStr(Chapinero)
        ELSE IF IsSubstring(Kennedy, neighborhood_lower) THEN PyStr(Kennedy)
        ELSE IF IsSubstring(Bosa, neighborhood_lower) THEN PyStr(Bosa)
        ELSE IF IsSubstring(Fontibon, neighborhood_lower) THEN PyStr(Fontibon)
        ELSE IF IsSubstring(Engativa, neighborhood_lower) THEN PyStr(Engativa)
        ELSE IF IsSubstring(Tunjuelito, neighborhood_lower) THEN PyStr(Tunjuelito)
        ELSE IF IsSubstring(Usme, neighborhood_lower) THEN PyStr(Usme)
        ELSE IF IsSubstring(<<"s", "a", "n", " ", "c", "r", "i", "s", "t", "o", "b", "a", "l">>,
                            neighborhood_lower)
        THEN PyStr(<<"s", "a", "n", "-", "c", "r", "i", "s", "t", "o", "b", "a", "l">>)
        ELSE None)

\* the zone the pattern <indicator>\s+([a-zA-Z\s]+) names, for the first of
\* the indicators whose match is a key of zone_mapping, or None
RECURSIVE ZoneByIndicator(_, _)
ZoneByIndicator(indicators, address_lower) ==
    IF indicators = <<>> THEN None
    ELSE Let(Search(<<Head(indicators)>>, address_lower), LAMBDA match :
             IF match # None /\ HasKey(zone_mapping, LowerStr(Strip(match.str)))
             THEN PyStr(ValueOf(zone_mapping, LowerStr(Strip(match.str))))
             ELSE ZoneByIndicator(Tail(indicators), address_lower))

\* FincaraizMapper._extract_zone_from_address
_extract_zone_from_address(address) ==
    Let(LowerStr(address), LAMBDA address_lower :
    Let(FirstMatch(zone_mapping, address_lower), LAMBDA known :
        IF known # None THEN known
        ELSE Let(ZoneByIndicator(<<Localidad, Zona, Sector>>, address_lower),
                 LAMBDA named :
                    IF named # None THEN named
                    ELSE Let(_extract_neighborhood_from_address(address),
                             LAMBDA neighborhood :
                                IF neighborhood # None /\ neighborhood.str # <<>>
                                THEN _map_neighborhood_to_zone(neighborhood.str)
                                ELSE None))))

\* "a or b" for a str-or-None a of the record
OrStr(a, b) == Let2(a, b, LAMBDA x, y : IF x = None \/ x = PyStr(<<>>) THEN y ELSE x)

\* FincaraizMapper._extract_search_parameters, or the exception of
\* _extract_advanced_filters
_extract_search_parameters(self, property_data) ==
    Let(Get(property_data, "address", <<>>), LAMBDA address :
    Let2(OrStr(Get(property_data, "zone", None), _extract_zone_from_address(address)),
         Let(Get(property_data, "neighborhoods", <<>>), LAMBDA neighborhoods :
             IF neighborhoods = <<>>
             THEN Let(OrStr(Get(property_data, "neighborhood", None),
                            _extract_neighborhood_from_address(address)),
                      LAMBDA single_neighborhood :
                         IF single_neighborhood # None /\ single_neighborhood.str # <<>>
                         THEN <<single_neighborhood.str>>
                         ELSE neighborhoods)
             ELSE neighborhoods),
         LAMBDA zone, neighborhoods :
    Let(_extract_advanced_filters(property_data), LAMBDA advanced_filters :
        IF IsRaised(advanced_filters) THEN advanced_filters
        ELSE Merge(advanced_filters,
             Merge(IF neighborhoods # <<>> THEN [barrios |-> neighborhoods] ELSE NoField,
             Merge(IF zone # None /\ zone.str # <<>> THEN [zona |-> zone.str] ELSE NoField,
             Merge([ciudad |-> fixed_city],
             Merge(_extract_characteristics(property_data),
             Merge(_calculate_area_range(self, property_data),
             Merge(_calculate_price_range(self, property_data),
                   [tipo_operacion |->
                       Get(operation_mapping, Get(property_data, "operation", "VENTA"),
                           "venta"),
                    tipo_inmueble |->
                       Get(property_type_mapping,
                           Get(property_data, "property_type", "Apartamento"),
                           "apartamentos"),
                    bedrooms |-> Get(property_data, "bedrooms", RInt(1)),
                    bathrooms |-> Get(property_data, "bathrooms", RInt(1))]))))))))))

\* neighborhood.lower().replace(' ', '-')
FormatNeighborhood_KeepSpaces(neighborhood) ==
    [i \in 1..Len(neighborhood) |-> Lower(neighborhood[i])]

FormatNeighborhood(neighborhood) ==
    [i \in 1..Len(neighborhood) |->
        IF Lower(neighborhood[i]) = " " THEN "-" ELSE Lower(neighborhood[i])]

\* urllib.parse.quote(s, safe='') on the characters of the age labels:
\* letters and digits stay, the others become the %XX of their UTF-8 bytes
RECURSIVE Quote(_)
Quote(s) ==
    IF s = <<>> THEN <<>>
    ELSE (IF Head(s) = " " THEN <<"%20">>
          ELSE IF Head(s) = "ñ" THEN <<"%C3%B1">>
          ELSE IF Head(s) = "á" THEN <<"%C3%A1">>
          ELSE <<Head(s)>>) \o Quote(Tail(s))

\* FincaraizMapper._build_query_params; ToString is str() of an int
_build_query_params(search_params) ==
    Let2(Get(search_params, "bedrooms", None), Get(search_params, "bathrooms", None),
         LAMBDA bedrooms, bathrooms :
    Let2(Get(search_params, "estrato", None), Get(search_params, "parking", None),
         LAMBDA stratum, parking :
        Join("&",
            <<<<"IDmoneda=4">>>>
            \o (IF Get(search_params, "tipo_inmueble", "") # ""
                THEN <<<<"tipo[]=", search_params.tipo_inmueble>>>> ELSE <<>>)
            \o (IF Truthy(stratum) THEN <<<<"stratum[]=", ToString(stratum.n)>>>> ELSE <<>>)
            \o (IF Truthy(bedrooms) /\ RLt(RZero, bedrooms)
                THEN <<<<"habitaciones[]=", ToString(bedrooms.n)>>>> ELSE <<>>)
            \o (IF Truthy(bathrooms) /\ RLt(RZero, bathrooms)
                THEN <<<<"banos[]=", ToString(bathrooms.n)>>>> ELSE <<>>)
            \o (IF Get(search_params, "precio_min", 0) # 0
                THEN <<<<"precio_desde=", ToString(search_params.precio_min)>>>> ELSE <<>>)
            \o (IF Get(search_params, "precio_max", 0) # 0
                THEN <<<<"precio_hasta=", ToString(search_params.precio_max)>>>> ELSE <<>>)
            \o (IF Get(search_params, "area_min", 0) # 0
                THEN <<<<"area_desde=", ToString(search_params.area_min)>>>> ELSE <<>>)
            \o (IF Get(search_params, "area_max", 0) # 0
                THEN <<<<"area_hasta=", ToString(search_params.area_max)>>>> ELSE <<>>)
            \o (IF Get(search_params, "amenities", <<>>) # <<>>
                THEN Let(Split(search_params.amenities, "-y-"), LAMBDA amenity_list :
                         [i \in 1..Len(amenity_list) |-> <<"extras[]=">> \o amenity_list[i]])
                ELSE <<>>)
            \o (IF Truthy(parking) /\ RLt(RZero, parking)
                THEN <<<<"parqueaderos[]=", ToString(parking.n)>>>> ELSE <<>>)
            \o (IF Get(search_params, "construction_age", <<>>) # <<>>
                THEN <<<<"antiguedad[]=">> \o Quote(search_params.construction_age)>>
                ELSE <<>>)
            \o (IF Get(search_params, "floor", "") # ""
                THEN <<<<"piso[]=", search_params.floor>>>> ELSE <<>>))))

\* FincaraizMapper._build_search_url
_build_search_url(search_params) ==
    Let2(Get(search_params, "barrios", <<>>),
         Get(search_params, "publication_date", "publicado-ultimos-7-dias"),
         LAMBDA neighborhoods, publication_date :
        Let2(Join("/",
                  <<<<base_url>>, <<Get(search_params, "tipo_operacion", "venta")>>,
                    <<Get(search_params, "ciudad", "bogota-dc")>>>>
                  \o (IF neighborhoods # <<>>
                      THEN <<Join("-y-en-",
                                  [i \in 1..Len(neighborhoods) |->
                                      FormatNeighborhood(neighborhoods[i])])>>
                      ELSE <<>>)
                  \o (IF publication_date # "" THEN <<<<publication_date>>>> ELSE <<>>)),
             _build_query_params(search_params),
             LAMBDA url, query_params :
                IF query_params # <<>> THEN url \o <<"?">> \o query_params ELSE url))

(* The records handed to the mapper: five families,  each varying the       *)
(* fields one group of rules reads and leaving the others absent.          *)

\* the fields of the price and area ranges
RangeInputs ==
    {Merge(Merge(p, t), Merge(Merge(h, pt), at)) :
        p \in Field("pricing", {[price_per_m2 |-> v] :
                                    v \in {RZero, RInt(2000000), Rat(1, 2)}}),
        t \in Field("area_total", {RZero, RInt(50), RInt(150)}),
        h \in Field("area_habitable", {RInt(40), Rat(2, 5)}),
        pt \in Field("price_tolerance", {RInt(20)}),
        at \in Field("area_tolerance", {RInt(20)})}

\* the fields of the path
PathInputs ==
    {Merge(Merge(o, t), Merge(Merge(ns, n), d)) :
        o \in Field("operation", {"VENTA", "ARRIENDO", "PERMUTA"}),
        t \in Field("property_type", {"Apartamento", "Casa", "Castillo"}),
        ns \in Field("neighborhoods", {<<>>, <<<<"L", "a", " ", "C">>>>,
                                       <<<<"L", "a", " ", "C">>, <<"B", "-", "s">>>>}),
        n \in Field("neighborhood", {PyStr(<<>>), PyStr(<<"S", " ", "a">>)}),
        d \in Field("publication_date", {"Indiferente", "Hoy", "Últimos 30 días", "Ayer"})}

\* the fields of the query string's filters
FilterInputs ==
    {Merge(Merge(Merge(s, b), Merge(ba, p)), Merge(Merge(f, c), z)) :
        s \in Field("stratum", {RInt(3)}),
        b \in Field("bedrooms", {RZero, RInt(3)}),
        ba \in Field("bathrooms", {RInt(2)}),
        p \in Field("parking", {RZero, RInt(2), None}),
        f \in Field("floor", {RInt(1), RInt(7), RInt(11)}),
        c \in Field("construction_age",
                    {RZero, Rat(1, 2), RInt(1), RInt(8), RInt(9), RInt(15), RInt(16),
                     RInt(30), RInt(31)}),
        z \in Field("zone", {PyStr(<<"usaquen">>)})}

\* the fields of the amenities
AmenityInputs ==
    {Merge(Merge(Merge(e, t), Merge(ta, w)), Merge(Merge(s, l), Merge(Merge(a, p), d))) :
        e \in Field("elevator", {TRUE, FALSE}),
        t \in Field("terrace", {TRUE, FALSE}),
        ta \in Field("terrace_area", {RInt(5), None}),
        w \in Field("walking_closet", {TRUE}),
        s \in Field("study_room", {TRUE}),
        l \in Field("loft", {TRUE}),
        a \in Field("area_total", {RInt(100), RInt(150)}),
        p \in Field("parking", {RInt(2)}),
        d \in Field("deposit", {RInt(1)})}

\* the addresses of the model's records
Addresses ==
    \* 'Calle 5 Cedritos'
    {<<"C", "a", "l", "l", "e", " ", "5", " ", "C", "e", "d", "r", "i", "t", "o", "s">>,
    \* 'Cra 7 La Candelaria'
     <<"C", "r", "a", " ", "7", " ", "L", "a", " ",
       "C", "a", "n", "d", "e", "l", "a", "r", "i", "a">>,
    \* 'Barrio Modelia, Bogota'
     <<"B", "a", "r", "r", "i", "o", " ", "M", "o", "d", "e",
       "l", "i", "a", ",", " ", "B", "o", "g", "o", "t", "a">>,
    \* 'Calle 1 # 2'
     <<"C", "a", "l", "l", "e", " ", "1", " ", "#", " ", "2">>,
    \* 'Subbarrio El Lago 4'
     <<"S", "u", "b", "b", "a", "r", "r", "i", "o",
       " ", "E", "l", " ", "L", "a", "g", "o", " ", "4">>,
    \* 'barrio ,'
     <<"b", "a", "r", "r", "i", "o", " ", ",">>,
    \* 'Sector Kennedy Sur'
     <<"S", "e", "c", "t", "o", "r", " ", "K", "e",
       "n", "n", "e", "d", "y", " ", "S", "u", "r">>,
    \* 'unzona  #'
     <<"u", "n", "z", "o", "n", "a", " ", " ", "#">>,
    \* 'Localidad Antonio Nariño'
     <<"L", "o", "c", "a", "l", "i", "d", "a", "d", " ", "A", "n",
       "t", "o", "n", "i", "o", " ", "N", "a", "r", "i", "ñ", "o">>,
    \* 'barrio Zona Rosa'
     <<"b", "a", "r", "r", "i", "o", " ", "Z", "o", "n", "a", " ", "R", "o", "s", "a">>,
    \* 'sector suba'
     <<"s", "e", "c", "t", "o", "r", " ", "s", "u", "b", "a">>,
    \* 'Barrio Niza'
     <<"B", "a", "r", "r", "i", "o", " ", "N", "i", "z", "a">>,
    \* 'Cl 9 sector'
     <<"C", "l", " ", "9", " ", "s", "e", "c", "t", "o", "r">>}

\* the fields of the location
AddressInputs ==
    {Merge(Merge(a, z), Merge(ns, n)) :
        a \in Field("address", Addresses \cup {<<>>}),
        z \in Field("zone", {PyStr(<<"usaquen">>)}),
        ns \in Field("neighborhoods", {<<>>, <<<<"L", "a", " ", "C">>>>}),
        n \in Field("neighborhood", {PyStr(<<>>), PyStr(<<"S", " ", "a">>)})}

\* FincaraizMapper.__init__ and the argument of one map_property_to_search call
InitMapper ==
    /\ raw \in {[by |-> "FincaraizMapper", self |-> FincaraizMapper, data |-> property_data] :
                  property_data \in RangeInputs \cup PathInputs \cup FilterInputs
                                    \cup AmenityInputs \cup AddressInputs}
    /\ built = None
    /\ properties = <<>>
    /\ target_property = None
    /\ analysis_results = None
    /\ market_stats = None
    /\ comparable_properties = <<>>
    /\ outcome = "init"

\* FincaraizMapper.map_property_to_search; the metadata and the timestamp of
\* the result are not modelled
map_property_to_search_Unmapped ==
    /\ raw.by = "FincaraizMapper" /\ built = None
    /\ \E search_params \in {_extract_search_parameters(raw.self, raw.data)} :
          IF IsRaised(search_params)
          THEN built' = [error |-> search_params.raised, portal |-> "fincaraiz"]
          ELSE IF {"operation", "property_type"} \cap DOMAIN raw.data = {}
          THEN built' = [error |-> "UnmappedValueError", portal |-> "fincaraiz"]
          ELSE built' = [search_url |-> _build_search_url(search_params),
                         search_params |-> search_params, portal |-> "fincaraiz"]
    /\ UNCHANGED raw
    /\ UNCHANGED analyzerVars

map_property_to_search ==
    /\ raw.by = "FincaraizMapper" /\ built = None
    /\ \E search_params \in {_extract_search_parameters(raw.self, raw.data)} :
          IF IsRaised(search_params)
          THEN built' = [error |-> search_params.raised, portal |-> "fincaraiz"]
          ELSE built' = [search_url |-> _build_search_url(search_params),
                         search_params |-> search_params, portal |-> "fincaraiz"]
    /\ UNCHANGED raw
    /\ UNCHANGED analyzerVars

SpecMapper == InitMapper /\ [][map_property_to_search]_vars

(* One mapper called several times.  raw.self is the mapper, raw.data the  *)
(* record the caller passed to the last call, as it is after the call, and *)
(* built.calls the arguments and the results of the calls so far.          *)

\* the most calls made on one mapper
MaxCalls == 3

\* the values datetime.now().isoformat() takes
Clock == {"2025-01-27T10:00:00", "2025-01-27T10:00:01"}

CallInputs ==
    {NoField,
     [pricing |-> [price_per_m2 |-> RInt(2000000)], area_total |-> RInt(50)],
     [pricing |-> [price_per_m2 |-> RInt(2000000)], area_total |-> RInt(50),
      price_tolerance |-> RInt(20), area_tolerance |-> RInt(10)],
     [operation |-> "ARRIENDO", neighborhoods |-> <<<<"L", "a", " ", "C">>>>],
     [address |-> <<"B", "a", "r", "r", "i", "o", " ", "N", "i", "z", "a">>],
     [parking |-> None]}

\* FincaraizMapper()
InitMapperCalls ==
    /\ raw = [by |-> "FincaraizMapper.calls", self |-> FincaraizMapper, data |-> None]
    /\ built = [calls |-> <<>>]
    /\ properties = <<>>
    /\ target_property = None
    /\ analysis_results = None
    /\ market_stats = None
    /\ comparable_properties = <<>>
    /\ outcome = "init"

\* FincaraizMapper.map_property_to_search storing the record's price
\* tolerance on the mapper
map_property_to_search_KeepsTolerance(property_data, now) ==
    /\ raw.by = "FincaraizMapper.calls" /\ Len(built.calls) < MaxCalls
    /\ \E search_params \in {_extract_search_parameters(raw.self, property_data)} :
          built' = [calls |-> Append(built.calls,
                      [argument |-> property_data,
                       result |->
                          IF IsRaised(search_params)
                          THEN [error |-> search_params.raised, portal |-> "fincaraiz",
                                timestamp |-> now]
                          ELSE [search_url |-> _build_search_url(search_params),
                                search_params |-> search_params, portal |-> "fincaraiz",
                                timestamp |-> now]])]
    /\ raw' = [raw EXCEPT !.data = property_data,
                          !.self.price_tolerance =
                              Get(property_data, "price_tolerance", raw.self.price_tolerance)]
    /\ UNCHANGED analyzerVars

\* FincaraizMapper.map_property_to_search as one of several calls on the same
\* mapper: no statement of the call assigns to a field of self or into
\* property_data; the result's timestamp is datetime.now()
map_property_to_search_again(property_data, now) ==
    /\ raw.by = "FincaraizMapper.calls" /\ Len(built.calls) < MaxCalls
    /\ \E search_params \in {_extract_search_parameters(raw.self, property_data)} :
          built' = [calls |-> Append(built.calls,
                      [argument |-> property_data,
                       result |->
                          IF IsRaised(search_params)
                          THEN [error |-> search_params.raised, portal |-> "fincaraiz",
                                timestamp |-> now]
                          ELSE [search_url |-> _build_search_url(search_params),
                                search_params |-> search_params, portal |-> "fincaraiz",
                                timestamp |-> now]])]
    /\ raw' = [raw EXCEPT !.data = property_data]
    /\ UNCHANGED analyzerVars

NextMapperCalls ==
    \E property_data \in CallInputs, now \in Clock :
        map_property_to_search_again(property_data, now)

SpecMapperCalls == InitMapperCalls /\ [][NextMapperCalls]_vars

----------------------------------------------------------------------------
(* CSVConverter.convert_csv_file and convert_multiple_files                *)
(* (csv_converter.py).  A raw row is what csv.DictReader yields: a dict    *)
(* from the header's names to strs, with None for the cells a short row    *)
(* lacks.  An input path is its directory, base name and extension.  The   *)
(* input files are fixed on disk; raw holds the call's arguments and built *)
(* the value returned together with the output files written.              *)

MaxFiles == 3

\* str.upper() on one character (a piece that is no lower-case letter stays)
Upper(c) ==
    IF \E i \in 1..26 : LowerLetters[i] = c
    THEN UpperLetters[CHOOSE i \in 1..26 : LowerLetters[i] = c]
    ELSE IF c = "ñ" THEN "Ñ" ELSE c

UpperStr(s) == [i \in 1..Len(s) |-> Upper(s[i])]

ARRIENDO == <<"A", "R", "R", "I", "E", "N", "D", "O">>

RENTA == <<"R", "E", "N", "T", "A">>

VENTA == <<"V", "E", "N", "T", "A">>

SALE == <<"S", "A", "L", "E">>

ErrNoneUpper == "AttributeError: 'NoneType' object has no attribute 'upper'"

ErrInfinity == "OverflowError: cannot convert float infinity to integer"

\* the operation a text names: rent keywords first, then sale keywords
\* (None when it names neither)
OperationIn(text) ==
    Let(text, LAMBDA t :
        IF IsSubstring(ARRIENDO, t) \/ IsSubstring(RENTA, t) THEN PyStr(ARRIENDO)
        ELSE IF IsSubstring(VENTA, t) \/ IsSubstring(SALE, t) THEN PyStr(VENTA)
        ELSE None)

\* CSVConverter._extract_operation: 'ARRIENDO' or 'VENTA', or the
\* AttributeError of .upper() on a cell that is None
_extract_operation(raw_property) ==
    Let(Get(raw_property, "operation", PyStr(<<>>)), LAMBDA operation :
        IF operation = None
        THEN Raised(ErrNoneUpper)
        ELSE Let(OperationIn(UpperStr(operation.str)), LAMBDA named :
                IF named # None THEN named
                ELSE Let(Get(raw_property, "title", PyStr(<<>>)), LAMBDA title :
                        IF title = None
                        THEN Raised(ErrNoneUpper)
                        ELSE Let(OperationIn(UpperStr(title.str)), LAMBDA inferred :
                                IF inferred # None THEN inferred ELSE PyStr(VENTA)))))

\* CSVConverter._extract_address
NoAddress == <<"Dirección no disponible">>

_extract_address(raw_property) ==
    Let(Or(Get(raw_property, "address", PyStr(<<>>)), Get(raw_property, "title", PyStr(<<>>))),
        LAMBDA address :
        IF Falsy(address) THEN PyStr(NoAddress) ELSE PyStr(Strip(address.str)))

\* the numerals float() reads as an infinity
IsInfinity(s) ==
    Let(LowerStr(Strip(s)), LAMBDA t :
        \E sign \in {<<>>, <<"+">>, <<"-">>} :
            t \in {sign \o <<"i", "n", "f">>,
                   sign \o <<"i", "n", "f", "i", "n", "i", "t", "y">>})

\* CSVConverter._parse_integer: int(float(str(value))), the default for
\* what float() rejects; the OverflowError of int(inf) is not caught
_parse_integer(value, default) ==
    Let(value, LAMBDA v :
        IF Falsy(v) THEN RInt(default)
        ELSE IF IsInfinity(StrOf(v)) THEN Raised(ErrInfinity)
        ELSE Let(FloatOfChars(StrOf(v)), LAMBDA f :
                IF IsRaised(f) THEN RInt(default) ELSE RInt(f.n \div f.d)))

\* CSVConverter._validate_required_fields
_validate_required_fields(property_data) ==
    \A field \in {"address", "operation", "area_habitable", "bedrooms", "bathrooms", "pricing"} :
        field \in DOMAIN property_data /\ property_data[field] # None

\* CSVConverter._convert_single_property as convert_csv_file sees it: the
\* converted dict (the fields the claims read), or None when an extractor
\* raised or a required field is missing
CSVConverter_convert_single_property(raw_property) ==
    Let2(_extract_operation(raw_property),
         _parse_integer(Get(raw_property, "bedrooms", PyStr(<<>>)), 0),
         LAMBDA operation, bedrooms :
        IF IsRaised(operation) \/ IsRaised(bedrooms)
        THEN None
        ELSE Let([address |-> _extract_address(raw_property),
                  operation |-> operation,
                  area_habitable |-> _extract_area_habitable(raw_property),
                  bedrooms |-> bedrooms,
                  bathrooms |-> _parse_float(Get(raw_property, "bathrooms", PyStr(<<>>))),
                  pricing |-> CSVConverter_extract_pricing(raw_property)],
                 LAMBDA converted :
                IF _validate_required_fields(converted) THEN converted ELSE None))

\* the files on disk: the rows _read_csv_file returns, or the exception of
\* open() or of the reader
CsvRow(address, operation, title, bedrooms) ==
    [address |-> address, operation |-> operation, title |-> title, bedrooms |-> bedrooms,
     area |-> PyStr(<<"5", "0">>), price |-> PyStr(<<"1", "0", "0">>)]

SaleRow ==
    CsvRow(PyStr(<<"C", "l", " ", "1">>), PyStr(<<"v", "e", "n", "t", "a">>),
           PyStr(<<"t">>), PyStr(<<"2">>))

RentRow ==
    CsvRow(PyStr(<<"C", "l", " ", "2">>), PyStr(<<>>),
           PyStr(<<"e", "n", " ", "R", "e", "n", "t", "a">>), PyStr(<<"3">>))

ShortRow == CsvRow(PyStr(<<"C", "l", " ", "3">>), None, None, None)

InfRow ==
    CsvRow(PyStr(<<"C", "l", " ", "4">>), PyStr(<<"a", "r", "r", "i", "e", "n", "d", "o">>),
           PyStr(<<"t">>), PyStr(<<"i", "n", "f">>))

ErrNoSuchFile == "FileNotFoundError: [Errno 2] No such file or directory"

InputFile(base) == [dir |-> "data", base |-> base, ext |-> ".csv"]

InputFiles == {InputFile(base) : base \in {"sales", "mixed", "header", "short", "missing"}}

_read_csv_file(file_path) ==
    CASE file_path.base = "sales" -> [rows |-> <<SaleRow, RentRow>>]
      [] file_path.base = "mixed" -> [rows |-> <<ShortRow, SaleRow, InfRow, RentRow>>]
      [] file_path.base = "header" -> [rows |-> <<>>]
      [] file_path.base = "short" -> [rows |-> <<ShortRow>>]
      [] OTHER -> Raised(ErrNoSuchFile)

\* the directories in which open(output_file, 'w') succeeds
Directories == {"out"}

\* the loop of convert_csv_file ending at the first row that fails
RECURSIVE ConvertedOf_Stops(_)
ConvertedOf_Stops(raw_properties) ==
    IF raw_properties = <<>> THEN <<>>
    ELSE Let(CSVConverter_convert_single_property(Head(raw_properties)), LAMBDA converted :
            IF converted # None
            THEN <<converted>> \o ConvertedOf_Stops(Tail(raw_properties))
            ELSE <<>>)

\* the loop of convert_csv_file over the rows read
RECURSIVE ConvertedOf(_)
ConvertedOf(raw_properties) ==
    IF raw_properties = <<>> THEN <<>>
    ELSE Let(CSVConverter_convert_single_property(Head(raw_properties)), LAMBDA converted :
            IF converted # None
            THEN <<converted>> \o ConvertedOf(Tail(raw_properties))
            ELSE ConvertedOf(Tail(raw_properties)))

\* CSVConverter._write_standardized_csv: whether it wrote the file
_write_standardized_csv(converted_properties, output_file) ==
    converted_properties # <<>> /\ output_file.dir \in Directories

\* CSVConverter.convert_csv_file: the dict returned and the file written
convert_csv_file(input_file, output_file) ==
    Let(_read_csv_file(input_file), LAMBDA read :
        IF IsRaised(read)
        THEN [result |-> [success |-> FALSE, error |-> read.raised,
                          input_file |-> input_file, output_file |-> output_file],
              written |-> {}]
        ELSE Let2(read.rows, ConvertedOf(read.rows), LAMBDA raw_properties, converted_properties :
                Let(_write_standardized_csv(converted_properties, output_file), LAMBDA success :
                    [result |->
                        [success |-> success,
                         input_file |-> input_file,
                         output_file |-> output_file,
                         total_input_properties |-> Len(raw_properties),
                         converted_properties |-> Len(converted_properties),
                         conversion_errors |-> <<>>,
                         conversion_rate |->
                             IF raw_properties # <<>>
                             THEN Rat(Len(converted_properties), Len(raw_properties))
                             ELSE RZero],
                     written |-> IF success
                                 THEN {[path |-> output_file, rows |-> converted_properties]}
                                 ELSE {}])))

\* os.path.join(output_dir, f"{base_name}_standardized.csv")
OutputFile(input_file, output_dir) ==
    [dir |-> output_dir, base |-> <<input_file.base, "_standardized">>, ext |-> ".csv"]

\* the files on disk after one more is written
Write(files, written) ==
    {f \in files : \A w \in written : w.path # f.path} \cup written

\* CSVConverter.convert_multiple_files counting every file that was read
RECURSIVE convert_multiple_files_CountsRead(_, _, _)
convert_multiple_files_CountsRead(input_files, output_dir, results) ==
    IF input_files = <<>> THEN results
    ELSE Let(convert_csv_file(Head(input_files), OutputFile(Head(input_files), output_dir)),
             LAMBDA file :
            convert_multiple_files_CountsRead(Tail(input_files), output_dir,
                IF file.result.success
                THEN [results EXCEPT
                        !.file_results = Append(@, file.result),
                        !.converted_files = @ + 1,
                        !.total_properties = @ + file.result.total_input_properties,
                        !.total_converted = @ + file.result.converted_properties,
                        !.files = Write(@, file.written)]
                ELSE [results EXCEPT
                        !.file_results = Append(@, file.result),
                        !.failed_files = @ + 1,
                        !.total_properties =
                            @ + Get(file.result, "total_input_properties", 0),
                        !.total_converted = @ + Get(file.result, "converted_properties", 0),
                        !.success = FALSE]))

\* CSVConverter.convert_multiple_files: the loop over the input files that
\* remain, results being the dict so far and the output files written
RECURSIVE convert_multiple_files(_, _, _)
convert_multiple_files(input_files, output_dir, results) ==
    IF input_files = <<>> THEN results
    ELSE Let(convert_csv_file(Head(input_files), OutputFile(Head(input_files), output_dir)),
             LAMBDA file :
            convert_multiple_files(Tail(input_files), output_dir,
                IF file.result.success
                THEN [results EXCEPT
                        !.file_results = Append(@, file.result),
                        !.converted_files = @ + 1,
                        !.total_properties = @ + file.result.total_input_properties,
                        !.total_converted = @ + file.result.converted_properties,
                        !.files = Write(@, file.written)]
                ELSE [results EXCEPT
                        !.file_results = Append(@, file.result),
                        !.failed_files = @ + 1,
                        !.success = FALSE]))

\* the rows handed to _extract_operation: each of the two fields absent,
\* None, or a str naming a rent keyword, a sale keyword, both or neither
OperationTexts ==
    {<<>>, <<"A", "R", "R", "I", "E", "N", "D", "O">>, <<"v", "e", "n", "t", "a">>,
     <<"r", "e", "n", "t", "a", " ", "o", " ", "v", "e", "n", "t", "a">>,
     <<"F", "o", "r", " ", "S", "a", "l", "e">>, <<"S", "e", " ", "a", "r", "r", "i", "e", "n", "d", "a">>,
     <<"e", "n", " ", "a", "r", "r", "i", "e", "n", "d", "o">>, <<"l", "o", "t", "e">>}

OperationRows ==
    {Merge(o, t) : o \in Field("operation", {PyStr(x) : x \in OperationTexts} \cup {None}),
                   t \in Field("title", {PyStr(x) : x \in OperationTexts} \cup {None})}

\* the calls: the operation of one row, one file converted, or a list of files
InitConverter ==
    /\ raw \in {[by |-> "CSVConverter._extract_operation", data |-> r] : r \in OperationRows}
         \cup
              {[by |-> "CSVConverter.convert_csv_file", input_file |-> f,
                 output_file |-> OutputFile(f, d)] :
                  f \in InputFiles, d \in {"out", "nowhere"}}
         \cup {[by |-> "CSVConverter.convert_multiple_files", input_files |-> fs,
                output_dir |-> d] :
                  fs \in SeqsUpTo(InputFiles, MaxFiles), d \in {"out", "nowhere"}}
    /\ built = None
    /\ properties = <<>>
    /\ target_property = None
    /\ analysis_results = None
    /\ market_stats = None
    /\ comparable_properties = <<>>
    /\ outcome = "init"

\* one call of _extract_operation
_extract_operation_call ==
    /\ raw.by = "CSVConverter._extract_operation" /\ built = None
    /\ built' = [returned |-> _extract_operation(raw.data)]
    /\ UNCHANGED raw
    /\ UNCHANGED analyzerVars

\* one call of convert_csv_file
convert_csv_file_call ==
    /\ raw.by = "CSVConverter.convert_csv_file" /\ built = None
    /\ \E file \in {convert_csv_file(raw.input_file, raw.output_file)} :
          built' = [returned |-> file.result, files |-> file.written]
    /\ UNCHANGED raw
    /\ UNCHANGED analyzerVars

\* one call of convert_multiple_files
convert_multiple_files_call ==
    /\ raw.by = "CSVConverter.convert_multiple_files" /\ built = None
    /\ \E results \in {convert_multiple_files(raw.input_files, raw.output_dir,
                          [success |-> TRUE, total_files |-> Len(raw.input_files),
                           converted_files |-> 0, failed_files |-> 0, file_results |-> <<>>,
                           total_properties |-> 0, total_converted |-> 0, files |-> {}])} :
          built' = [returned |-> [k \in DOMAIN results \ {"files"} |-> results[k]],
                    files |-> results.files]
    /\ UNCHANGED raw
    /\ UNCHANGED analyzerVars

NextConverter == _extract_operation_call \/ convert_csv_file_call \/ convert_multiple_files_call

SpecConverter == InitConverter /\ [][NextConverter]_vars

----------------------------------------------------------------------------
(* The claims.  SpecAnalysis: one analyze_market call on every scenario.   *)
(* Spec: the analyzer's life.  SpecPricing: one call of a pricing builder.  *)

\* the last analyze_market call got as far as filtering
FilterRan == outcome \in {"ok", ErrNoComparables, "ZeroDivisionError"}

\* the last analyze_market call stored market statistics
StatsStored == outcome \in {"ok", "ZeroDivisionError"}

FieldOr(chars, key, default) == IF key \in DOMAIN chars THEN chars[key] ELSE default

\* the five comparability predicates of a candidate p against a target t
SameType(p, t) ==
    FieldOr(p.characteristics, "property_type", NoneStr)
        = FieldOr(t.characteristics, "property_type", NoneStr)

SameSale(p, t) ==
    FieldOr(p.characteristics, "sale_type", NoneStr)
        = FieldOr(t.characteristics, "sale_type", NoneStr)

AreaWithin30(p, t) ==
    LET pa == FieldOr(p.characteristics, "area_habitable", 0)
        ta == FieldOr(t.characteristics, "area_habitable", 0)
    IN  (pa > 0 /\ ta > 0) => (7 * ta <= 10 * pa /\ 10 * pa <= 13 * ta)

BedroomsWithin1(p, t) ==
    LET d == FieldOr(p.characteristics, "bedrooms", 0) - FieldOr(t.characteristics, "bedrooms", 0)
    IN  -1 <= d /\ d <= 1

StratumWithin1(p, t) ==
    LET d == FieldOr(p.characteristics, "stratum", 3) - FieldOr(t.characteristics, "stratum", 3)
    IN  -1 <= d /\ d <= 1

AllFive(p, t) ==
    SameType(p, t) /\ SameSale(p, t) /\ AreaWithin30(p, t)
        /\ BedroomsWithin1(p, t) /\ StratumWithin1(p, t)

\* C1: the comparable set computed by _filter_comparable_properties is exactly
\* the pool elements, in pool order, that satisfy all five comparability
\* predicates against the target; no rejected element satisfies all five.
C1_FilterExact ==
    FilterRan =>
        comparable_properties
            = SelectSeq(properties, LAMBDA p : AllFive(p, target_property))

\* a pool of three of which the filter kept two
C1_Witness ==
    /\ outcome = "ok"
    /\ Len(properties) = 3
    /\ Len(comparable_properties) = 2

\* one of the three cases in which analyze_market must fail
FailCase ==
    \/ target_property = None
    \/ properties = <<>>
    \/ \A i \in 1..Len(properties) : ~AllFive(properties[i], target_property)

\* C2: with no target, an empty pool or no comparable element, an
\* analyze_market call ends in one of its three errors and leaves the stored
\* market_stats and analysis_results exactly as they were.
C2_FailFast ==
    [][(analyze_market /\ FailCase) =>
          /\ outcome' \in {ErrNoTarget, ErrNoProperties, ErrNoComparables}
          /\ market_stats' = market_stats
          /\ analysis_results' = analysis_results]_vars

\* a failed call after a successful one: the earlier results are still stored
C2_Witness ==
    /\ outcome = ErrNoComparables
    /\ market_stats # None
    /\ analysis_results # None
\* the target's characteristics and the comparables of the last call
TC == target_property.characteristics

CP == comparable_properties

\* the four similarity factors of a candidate p against target characteristics tc
AreaFactor(p, tc) ==
    LET pa == FieldOr(p.characteristics, "area_habitable", 0)
        ta == FieldOr(tc, "area_habitable", 0)
    IN  IF pa > 0 /\ ta > 0
        THEN IF pa <= ta THEN Rat(pa, ta) ELSE Rat(ta, pa)
        ELSE ROne

BedroomFactor(p, tc) ==
    LET d == Abs(FieldOr(p.characteristics, "bedrooms", 0) - FieldOr(tc, "bedrooms", 0))
    IN  IF 10 - 2 * d >= 5 THEN Rat(10 - 2 * d, 10) ELSE Rat(5, 10)

StratumFactor(p, tc) ==
    LET d == Abs(FieldOr(p.characteristics, "stratum", 3) - FieldOr(tc, "stratum", 3))
    IN  IF 100 - 15 * d >= 70 THEN Rat(100 - 15 * d, 100) ELSE Rat(70, 100)

FloorFactor(p, tc) ==
    LET pf == FieldOr(p.characteristics, "floor", 0)
        tf == FieldOr(tc, "floor", 0)
    IN  IF pf > 0 /\ tf > 0
        THEN IF 10 - Abs(pf - tf) >= 8 THEN Rat(10 - Abs(pf - tf), 10) ELSE Rat(8, 10)
        ELSE ROne

FactorProduct(p, tc) ==
    RMul(RMul(AreaFactor(p, tc), BedroomFactor(p, tc)),
         RMul(StratumFactor(p, tc), FloorFactor(p, tc)))

\* the three sub-estimates of the comparables ps for target characteristics tc
SimpleAverage(ps) == Rat(RSum([i \in 1..Len(ps) |-> RInt(ps[i].pricing.sale_price)]).n, Len(ps))

AreaScaled(ps, tc) ==
    IF FieldOr(tc, "area_habitable", 0) > 0
    THEN RMul(RDiv(RSum([i \in 1..Len(ps) |-> ps[i].pricing.price_per_m2]), RInt(Len(ps))),
              RInt(tc.area_habitable))
    ELSE SimpleAverage(ps)

SimilarityWeighted(ps, tc) ==
    LET total == RSum([i \in 1..Len(ps) |-> FactorProduct(ps[i], tc)])
        sum == RSum([i \in 1..Len(ps) |->
                        RMul(RInt(ps[i].pricing.sale_price), FactorProduct(ps[i], tc))])
    IN  IF total.n > 0 THEN RDiv(sum, total) ELSE RZero

\* C3: for a non-empty comparable set the market price estimate is
\* 0.4 * simple_average + 0.4 * area_scaled + 0.2 * similarity_weighted,
\* area_scaled being simple_average when the target area is 0 or missing.
C3_EstimateBlend ==
    outcome = "ok" =>
        analysis_results.market_price_estimate
            = RAdd(RAdd(RMul(Rat(4, 10), SimpleAverage(CP)), RMul(Rat(4, 10), AreaScaled(CP, TC))),
                   RMul(Rat(2, 10), SimilarityWeighted(CP, TC)))

\* an estimate blended from three different sub-estimates
C3_Witness ==
    /\ outcome = "ok"
    /\ Len(CP) >= 2
    /\ SimpleAverage(CP) # AreaScaled(CP, TC)
    /\ SimpleAverage(CP) # SimilarityWeighted(CP, TC)
    /\ AreaScaled(CP, TC) # SimilarityWeighted(CP, TC)

\* C4: for every target and every non-empty comparable set the confidence
\* score is computed without a fault and lies in [0, 1].
C4_ConfidenceTotal ==
    (FilterRan /\ CP # <<>>) =>
        /\ outcome = "ok"
        /\ ~SurdLt(analysis_results.confidence_score, RZero)
        /\ SurdLe(analysis_results.confidence_score, ROne)

\* C5: price_difference = target price - estimate; the percentage is
\* 100 * difference / estimate (0 for estimate 0); is_overpriced iff the
\* percentage exceeds 10, is_underpriced iff it is below -10, never both.
C5_Verdict ==
    outcome = "ok" =>
        LET r == analysis_results
            est == r.market_price_estimate
            pct == r.price_difference_percentage
        IN  /\ r.price_difference = RSub(RInt(target_property.pricing.sale_price), est)
            /\ est.n # 0 => RMul(pct, est) = RMul(RInt(100), r.price_difference)
            /\ est.n = 0 => pct = RZero
            /\ r.is_overpriced <=> RLt(RInt(10), pct)
            /\ r.is_underpriced <=> RLt(pct, RInt(-10))
            /\ ~(r.is_overpriced /\ r.is_underpriced)

\* a target priced more than 10% below a positive estimate
C5_Witness ==
    /\ outcome = "ok"
    /\ analysis_results.market_price_estimate.n > 0
    /\ analysis_results.is_underpriced

\* the label the coefficient of variation cv2 = (stdev / mean)^2 of the
\* price-per-area values xs selects
LabelByCV(xs) ==
    LET m == Mean(xs)
        v == Variance(xs)
    IN  IF RLt(RMul(RInt(100), v), RMul(m, m)) THEN "Stable"
        ELSE IF RLt(RMul(RInt(25), v), RMul(m, m)) THEN "Moderate volatility"
        ELSE "High volatility"

PerM2(ps) == [i \in 1..Len(ps) |-> ps[i].pricing.price_per_m2]

Dated(ps) == {i \in 1..Len(ps) : "metadata" \in DOMAIN ps[i] /\ "listing_date" \in DOMAIN ps[i].metadata}

\* C6 as stated: with three or more comparables the label is decided by the
\* coefficient of variation of their price-per-area alone.
C6_TrendByCVAlone ==
    outcome = "ok" =>
        analysis_results.market_trend
            = IF Len(CP) < 3 THEN "Insufficient data"
              ELSE IF Mean(PerM2(CP)).n > 0 THEN LabelByCV(PerM2(CP))
              ELSE analysis_results.market_trend

\* C6 (amended): "Insufficient data" with fewer than 3 comparables; "Stable"
\* when fewer than 3 comparables carry a listing date; otherwise the label is
\* decided by the coefficient of variation of the price-per-area, taken as 0
\* when the mean price-per-area is not positive.
C6_TrendAmended ==
    outcome = "ok" =>
        analysis_results.market_trend
            = IF Len(CP) < 3 THEN "Insufficient data"
              ELSE IF Cardinality(Dated(CP)) < 3 THEN "Stable"
              ELSE IF Mean(PerM2(CP)).n > 0 THEN LabelByCV(PerM2(CP))
              ELSE "Stable"

\* three dated comparables whose price-per-area varies moderately
C6_Witness ==
    /\ outcome = "ok"
    /\ Cardinality(Dated(CP)) >= 3
    /\ analysis_results.market_trend = "Moderate volatility"

Entries(recs) == {recs[i] : i \in 1..Len(recs)}

\* C7: the recommendations start with the verdict's entries, hold the
\* low-confidence caveat iff confidence < 0.5 and the high-confidence one iff
\* confidence > 0.8, and hold the "verify characteristics" warning iff the
\* absolute value of the price difference percentage exceeds 20.
C7_Recommendations ==
    outcome = "ok" =>
        LET r == analysis_results
            recs == r.recommendations
            verdict == IF r.is_overpriced
                       THEN <<RecOverpriced(RAbs(r.price_difference_percentage)),
                              RecReduce(r.market_price_estimate)>>
                       ELSE IF r.is_underpriced
                       THEN <<RecUnderpriced(RAbs(r.price_difference_percentage)),
                              RecIncrease(r.market_price_estimate)>>
                       ELSE <<RecInRange>>
        IN  /\ Len(recs) >= Len(verdict)
            /\ SubSeq(recs, 1, Len(verdict)) = verdict
            /\ RecLowConfidence \in Entries(recs) <=> SurdLt(r.confidence_score, Rat(1, 2))
            /\ RecHighConfidence \in Entries(recs) <=> ~SurdLe(r.confidence_score, Rat(8, 10))
            /\ RecVerify \in Entries(recs)
                   <=> RLt(RInt(20), RAbs(r.price_difference_percentage))

\* C8: the similarity weight of every candidate is the product of the area,
\* bedroom, stratum and floor factors, lies in (0, 1], and is exactly 1 for a
\* candidate equal to the target in all four; the similarity-weighted
\* estimate divides by the total weight only when it is positive, else is 0.
C8_SimilarityWeight ==
    FilterRan =>
        /\ \A i \in 1..Len(properties) :
              LET p == properties[i]
                  w == _calculate_similarity_weight(p, TC)
              IN  /\ w = FactorProduct(p, TC)
                  /\ w.n > 0 /\ w.n <= w.d
                  /\ (/\ FieldOr(p.characteristics, "area_habitable", 0)
                            = FieldOr(TC, "area_habitable", 0)
                      /\ FieldOr(p.characteristics, "bedrooms", 0) = FieldOr(TC, "bedrooms", 0)
                      /\ FieldOr(p.characteristics, "stratum", 3) = FieldOr(TC, "stratum", 3)
                      /\ FieldOr(p.characteristics, "floor", 0) = FieldOr(TC, "floor", 0))
                     => w = ROne
        /\ _calculate_weighted_estimate(CP, TC) = SimilarityWeighted(CP, TC)

\* an analysed candidate that differs from the target in all four dimensions
C8_Witness ==
    /\ outcome = "ok"
    /\ \E i \in 1..Len(CP) :
          /\ AreaFactor(CP[i], TC) # ROne
          /\ BedroomFactor(CP[i], TC) # ROne
          /\ StratumFactor(CP[i], TC) # ROne
          /\ FloorFactor(CP[i], TC) # ROne

\* the element at 0-based position k of the ascending-sorted list of xs
AtSortedPosition(xs, k) ==
    CHOOSE v \in {xs[i] : i \in 1..Len(xs)} :
        /\ Cardinality({i \in 1..Len(xs) : RLt(xs[i], v)}) <= k
        /\ k < Cardinality({i \in 1..Len(xs) : RLe(xs[i], v)})

ComparablePrices == [i \in 1..Len(CP) |-> RInt(CP[i].pricing.sale_price)]

\* C9: the quartiles are the elements at positions floor(n/4), floor(n/2),
\* floor(3n/4) of the ascending-sorted prices (so Q1 <= Q2 <= Q3 within
\* [min, max]); standard deviation and variance are 0 for n = 1; the
\* coefficient of variation is 0 when the mean is 0; prices 100, 200, 300
\* give mean 200, median 200 and quartiles 100, 200, 300.
C9_MarketStatistics ==
    StatsStored =>
        LET ps == ComparablePrices
            n == Len(ps)
            q == market_stats.quartiles
        IN  /\ q = <<AtSortedPosition(ps, n \div 4), AtSortedPosition(ps, n \div 2),
                     AtSortedPosition(ps, (3 * n) \div 4)>>
            /\ RLe(market_stats.price_range[1], q[1]) /\ RLe(q[1], q[2])
            /\ RLe(q[2], q[3]) /\ RLe(q[3], market_stats.price_range[2])
            /\ n = 1 => /\ market_stats.standard_deviation = SurdOfRat(RZero)
                        /\ market_stats.variance = RZero
            /\ market_stats.mean_price = RZero
                   => market_stats.coefficient_of_variation = SurdOfRat(RZero)
            /\ {ps[i] : i \in 1..n} = {RInt(100), RInt(200), RInt(300)} /\ n = 3
                   => /\ market_stats.mean_price = RInt(200)
                      /\ market_stats.median_price = RInt(200)
                      /\ q = <<RInt(100), RInt(200), RInt(300)>>

\* the prices 300, 100, 200, analysed in that order
C9_Witness ==
    /\ outcome = "ok"
    /\ ComparablePrices = <<RInt(300), RInt(100), RInt(200)>>

\* C10: every built record carries price_per_m2 = price / habitable_area
\* when its habitable area is positive and exactly 0 when it is 0.
C10_PricePerArea ==
    built # None =>
        \A i \in 1..Len(built.records) :
            LET r == built.records[i]
            IN  /\ r.habitable_area.n > 0 => r.price_per_m2 = RDiv(r.price, r.habitable_area)
                /\ r.habitable_area.n = 0 => r.price_per_m2 = RZero

----------------------------------------------------------------------------
(* The workflow in front of the analyzer.                                  *)

\* the record carries every field the estimator requires
Complete(record) ==
    /\ {"characteristics", "pricing"} \subseteq DOMAIN record
    /\ {"property_type", "sale_type", "area_habitable", "bedrooms", "bathrooms"}
          \subseteq DOMAIN record.characteristics

\* analyze_market has been called by the workflow
AnalyzerCalled == raw.by = "RealEstateWorkflow" /\ outcome # "init"

\* C11: no record, target or pool member, that lacks property_type,
\* sale_type, habitable area, bedroom count, bathroom count or pricing
\* reaches analyze_market through the workflow
C11_ValidatedBeforeAnalysis ==
    AnalyzerCalled =>
        /\ Complete(target_property)
        /\ \A i \in 1..Len(properties) : Complete(properties[i])

----------------------------------------------------------------------------
(* The mapper's ranges.                                                    *)

\* map_property_to_search has returned a result with search parameters
Mapped == raw.by = "FincaraizMapper" /\ built # None /\ "search_params" \in DOMAIN built

PricePerArea == Get(Get(raw.data, "pricing", NoField), "price_per_m2", RZero)

TotalArea == Get(raw.data, "area_total", RZero)

HabitableArea == Get(raw.data, "area_habitable", RZero)

\* total_area when it is known and positive, otherwise habitable_area
KnownArea == IF RLt(RZero, TotalArea) THEN TotalArea ELSE HabitableArea

\* the record leaves no doubt about its area: a total_area it states is positive
AreaStated == "area_total" \in DOMAIN raw.data => RLt(RZero, TotalArea)

\* x * (1 + sign * t / 100)
Scaled(x, t, sign) == RMul(x, RAdd(ROne, RMul(RInt(sign), RDiv(t, RInt(100)))))

Truncated(x) == IF x.n >= 0 THEN x.n \div x.d ELSE -((-x.n) \div x.d)

\* C12: for positive price-per-area p and positive area a the price bounds
\* are p*a*(1 - t/100) and p*a*(1 + t/100) truncated to integers, t being
\* the supplied price tolerance percentage and 25 when none is supplied
C12_PriceBounds ==
    (Mapped /\ AreaStated /\ RLt(RZero, PricePerArea) /\ RLt(RZero, KnownArea)) =>
        LET t == Get(raw.data, "price_tolerance", RInt(25))
            total == RMul(PricePerArea, KnownArea)
        IN  /\ {"precio_min", "precio_max"} \subseteq DOMAIN built.search_params
            /\ built.search_params.precio_min = Truncated(Scaled(total, t, -1))
            /\ built.search_params.precio_max = Truncated(Scaled(total, t, 1))

\* the nearest integer, a tie going to the even one
Rounded(x) ==
    LET low == x.n \div x.d
    IN  IF 2 * (x.n - low * x.d) < x.d THEN low
        ELSE IF 2 * (x.n - low * x.d) > x.d THEN low + 1
        ELSE IF low % 2 = 0 THEN low ELSE low + 1

\* C13: for positive area a the area bounds are a*(1 - t/100) and
\* a*(1 + t/100) rounded to integers, t being the supplied area tolerance
\* percentage and 20 when none is supplied
C13_AreaBounds ==
    (Mapped /\ AreaStated /\ RLt(RZero, KnownArea)) =>
        LET t == Get(raw.data, "area_tolerance", RInt(20))
        IN  /\ {"area_min", "area_max"} \subseteq DOMAIN built.search_params
            /\ built.search_params.area_min = Rounded(Scaled(KnownArea, t, -1))
            /\ built.search_params.area_max = Rounded(Scaled(KnownArea, t, 1))

\* C14: a property whose total_area is absent or 0 but whose habitable_area
\* is positive still gets both ranges, derived from habitable_area: the
\* ranges of the same record without its total_area
C14_AreaFallback ==
    (Mapped /\ ~RLt(RZero, TotalArea) /\ RLt(RZero, HabitableArea)) =>
        LET habitable_only == Without(raw.data, "area_total")
        IN  /\ \A key \in {"area_min", "area_max"} :
                  /\ key \in DOMAIN built.search_params
                  /\ built.search_params[key] = _calculate_area_range(raw.self, habitable_only)[key]
            /\ RLt(RZero, PricePerArea) =>
                  \A key \in {"precio_min", "precio_max"} :
                      /\ key \in DOMAIN built.search_params
                      /\ built.search_params[key] = _calculate_price_range(raw.self, habitable_only)[key]

\* C15: the search parameters hold no price (area) range whenever the
\* underlying area or price-per-area is zero or unknown, and never hold the
\* pair precio_min = precio_max = 0 or area_min = area_max = 0
C15_NoDegenerateRange ==
    Mapped =>
        LET sp == built.search_params
            area == Get(raw.data, "area_total", HabitableArea)
        IN  /\ area = RZero => {"area_min", "area_max", "precio_min", "precio_max"}
                                 \cap DOMAIN sp = {}
            /\ PricePerArea = RZero => {"precio_min", "precio_max"} \cap DOMAIN sp = {}
            /\ "precio_min" \in DOMAIN sp => ~(sp.precio_min = 0 /\ sp.precio_max = 0)
            /\ "area_min" \in DOMAIN sp => ~(sp.area_min = 0 /\ sp.area_max = 0)

----------------------------------------------------------------------------
(* The mapper's failure semantics and the URL.                             *)

\* map_property_to_search has returned
Returned == raw.by = "FincaraizMapper" /\ built # None

Failed == Returned /\ "error" \in DOMAIN built

NoIdentifyingField == {"operation", "property_type"} \cap DOMAIN raw.data = {}

NoneCompared ==
    \/ \E key \in {"parking", "deposit", "area_total"} :
          key \in DOMAIN raw.data /\ raw.data[key] = None
    \/ /\ "terrace_area" \in DOMAIN raw.data /\ raw.data.terrace_area = None
       /\ ~Get(raw.data, "terrace", FALSE)

Address == Get(raw.data, "address", <<>>)

GivenList == Get(raw.data, "neighborhoods", <<>>)

GivenSingle == IF "neighborhood" \in DOMAIN raw.data THEN raw.data.neighborhood.str ELSE <<>>

Barrios == Get(built.search_params, "barrios", <<>>)

\* the known neighborhood names that are substrings of the lower-cased
\* address, as positions of the table
KnownNames ==
    {k \in 1..Len(neighborhood_mapping) :
        IsSubstring(neighborhood_mapping[k][1], LowerStr(Address))}

\* the positions of the address's words that are indicator words and have a
\* word after them
IndicatorWords ==
    {i \in 1..(Len(Words(Address)) - 1) :
        LowerStr(Words(Address)[i]) \in {Barrio, Sector, Zona, Localidad}}

\* the name that follows an indicator: the word after the first indicator
\* word, without its trailing commas, else the letters and blanks after
\* 'barrio', 'sector' or 'zona' inside the address; lower-cased
AfterIndicator ==
    IF IndicatorWords # {}
    THEN RStripComma(LowerStr(Words(Address)[
             (CHOOSE i \in IndicatorWords : \A j \in IndicatorWords : i <= j) + 1]))
    ELSE IF Search(<<Barrio, Sector, Zona>>, Address) # None
    THEN LowerStr(Strip(Search(<<Barrio, Sector, Zona>>, Address).str))
    ELSE <<>>

\* the neighborhoods the record resolves to: its non-empty list, else its
\* non-empty single neighborhood, else the first known name found in its
\* address, else the non-empty name that follows an indicator
Resolved ==
    IF GivenList # <<>> THEN GivenList
    ELSE IF GivenSingle # <<>> THEN <<GivenSingle>>
    ELSE IF KnownNames # {}
    THEN <<neighborhood_mapping[CHOOSE k \in KnownNames : \A j \in KnownNames : k <= j][2]>>
    ELSE IF AfterIndicator # <<>> THEN <<AfterIndicator>>
    ELSE <<>>

LowerCased(c) ==
    CASE c = "B" -> "b" [] c = "C" -> "c" [] c = "L" -> "l" [] c = "S" -> "s" [] OTHER -> c

Hyphenated(name) ==
    [i \in 1..Len(name) |-> IF name[i] = " " THEN "-" ELSE LowerCased(name[i])]

RECURSIVE NeighborhoodSegment(_)
NeighborhoodSegment(names) ==
    IF Len(names) = 1 THEN Hyphenated(names[1])
    ELSE Hyphenated(names[1]) \o <<"-y-en-">> \o NeighborhoodSegment(Tail(names))

PublicationToken ==
    IF "publication_date" \notin DOMAIN raw.data THEN "publicado-ultimos-7-dias"
    ELSE CASE raw.data.publication_date = "Indiferente" -> ""
           [] raw.data.publication_date = "Hoy" -> "publicado-hoy"
           [] raw.data.publication_date = "Últimos 30 días" -> "publicado-ultimos-30-dias"
           [] OTHER -> "publicado-ultimos-7-dias"

ExpectedPath ==
    <<"https://www.fincaraiz.com.co", "/",
      IF Get(raw.data, "operation", "VENTA") = "ARRIENDO" THEN "arriendo" ELSE "venta",
      "/", "bogota-dc">>
    \o (IF Resolved # <<>> THEN <<"/">> \o NeighborhoodSegment(Resolved) ELSE <<>>)
    \o (IF PublicationToken # "" THEN <<"/", PublicationToken>> ELSE <<>>)

\* the position of the '?' in the URL (0 when there is none)
QueryMark ==
    IF \E k \in 1..Len(built.search_url) : built.search_url[k] = "?"
    THEN CHOOSE k \in 1..Len(built.search_url) :
            built.search_url[k] = "?" /\ \A j \in 1..(k - 1) : built.search_url[j] # "?"
    ELSE 0

QueryString == SubSeq(built.search_url, QueryMark + 1, Len(built.search_url))

QueryPairs ==
    LET pairs == Split(QueryString, "&")
    IN  {pairs[i] : i \in 1..Len(pairs)}

Derived(key) == key \in DOMAIN built.search_params

\* C18: every filter that is not part of the path appears in the query
\* string: the currency constant always, stratum, bedroom and bathroom
\* counts, price bounds, area bounds and each amenity token when derived, the
\* parking count whenever parking > 0, the construction-age token and the
\* floor token whenever derived
C18_FiltersInQuery ==
    Mapped =>
        LET sp == built.search_params
        IN  /\ <<"IDmoneda=4">> \in QueryPairs
            /\ Derived("estrato") => <<"stratum[]=", ToString(sp.estrato.n)>> \in QueryPairs
            /\ RLt(RZero, sp.bedrooms) =>
                  <<"habitaciones[]=", ToString(sp.bedrooms.n)>> \in QueryPairs
            /\ RLt(RZero, sp.bathrooms) =>
                  <<"banos[]=", ToString(sp.bathrooms.n)>> \in QueryPairs
            /\ (Derived("precio_min") /\ sp.precio_min # 0) =>
                  <<"precio_desde=", ToString(sp.precio_min)>> \in QueryPairs
            /\ (Derived("precio_max") /\ sp.precio_max # 0) =>
                  <<"precio_hasta=", ToString(sp.precio_max)>> \in QueryPairs
            /\ (Derived("area_min") /\ sp.area_min # 0) =>
                  <<"area_desde=", ToString(sp.area_min)>> \in QueryPairs
            /\ (Derived("area_max") /\ sp.area_max # 0) =>
                  <<"area_hasta=", ToString(sp.area_max)>> \in QueryPairs
            /\ Derived("amenities") =>
                  \A i \in 1..Len(sp.amenities) :
                      sp.amenities[i] # "-y-" => <<"extras[]=", sp.amenities[i]>> \in QueryPairs
            /\ ("parking" \in DOMAIN raw.data /\ RLt(RZero, raw.data.parking)) =>
                  <<"parqueaderos[]=", ToString(raw.data.parking.n)>> \in QueryPairs
            /\ Derived("construction_age") =>
                  \E pair \in QueryPairs : pair[1] = "antiguedad[]=" /\ Len(pair) > 1
            /\ Derived("floor") => <<"piso[]=", sp.floor>> \in QueryPairs

\* the amenity flags of the record and the token of each
AmenityFlags == <<"elevator", "terrace", "walking_closet", "study_room", "loft">>

FlagToken ==
    [elevator |-> "con-ascensor", terrace |-> "con-balcon", walking_closet |-> "con-closet",
     study_room |-> "con-estudio", loft |-> "con-loft"]

RECURSIVE TokensOf(_)
TokensOf(flags) ==
    IF flags = <<>> THEN <<>>
    ELSE (IF Get(raw.data, Head(flags), FALSE) THEN <<FlagToken[Head(flags)]>> ELSE <<>>)
         \o TokensOf(Tail(flags))

\* the tokens of the amenity list the mapper produced
AmenityList ==
    IF Derived("amenities")
    THEN LET tokens == Split(built.search_params.amenities, "-y-")
         IN  [i \in 1..Len(tokens) |-> tokens[i][1]]
    ELSE <<>>

WellJoined ==
    Derived("amenities") =>
        LET joined == built.search_params.amenities
        IN  /\ Len(joined) % 2 = 1
            /\ \A i \in 1..Len(joined) : (joined[i] = "-y-") <=> (i % 2 = 0)

\* C19: the amenity list holds exactly one fixed token for each amenity flag
\* that is true and no token for a flag that is false or absent, the tokens
\* joined with '-y-'
C19_TokenPerFlag == Mapped => (AmenityList = TokensOf(AmenityFlags) /\ WellJoined)

\* the tokens the record's counts and areas add
HasPositive(key) ==
    key \in DOMAIN raw.data /\ raw.data[key] # None /\ RLt(RZero, raw.data[key])

ExpectedTokens ==
    (IF Get(raw.data, "elevator", FALSE) THEN <<"con-ascensor">> ELSE <<>>)
    \o (IF Get(raw.data, "terrace", FALSE) \/ HasPositive("terrace_area")
        THEN <<"con-balcon">> ELSE <<>>)
    \o TokensOf(<<"walking_closet", "study_room", "loft">>)
    \o (IF "area_total" \in DOMAIN raw.data /\ RLt(RInt(100), raw.data.area_total)
        THEN <<"con-jardin">> ELSE <<>>)
    \o (IF HasPositive("parking") THEN <<"con-parqueadero">> ELSE <<>>)
    \o (IF HasPositive("deposit") THEN <<"con-deposito">> ELSE <<>>)

\* C19, amended: the amenity list holds, in this order, one fixed token for
\* each true flag among elevator, terrace (or a positive terrace_area; one
\* token for both), walking_closet, study_room and loft, then the garden token
\* when total_area > 100, the parking token when parking > 0 and the deposit
\* token when deposit > 0, and no other token; the tokens are joined with '-y-'
C19_TokensAmended == Mapped => (AmenityList = ExpectedTokens /\ WellJoined)

C19_Witness ==
    /\ Mapped
    /\ Get(raw.data, "terrace", FALSE) /\ HasPositive("terrace_area")
    /\ ~Get(raw.data, "elevator", TRUE)
    /\ built.search_params.amenities =
          <<"con-balcon", "-y-", "con-closet", "-y-", "con-jardin", "-y-", "con-deposito">>

\* the bucket of an age among <1, 1-8, 9-15, 16-30 and >30 years
Bucket(a) ==
    CASE RLt(a, RInt(1)) -> "nuevo"
      [] RLe(RInt(1), a) /\ RLe(a, RInt(8)) -> "semi-nuevo"
      [] RLe(RInt(9), a) /\ RLe(a, RInt(15)) -> "usado"
      [] RLe(RInt(16), a) /\ RLe(a, RInt(30)) -> "antiguo"
      [] RLt(RInt(30), a) -> "muy_antiguo"

Percent(c) ==
    CASE c = " " -> "%20" [] c = "ñ" -> "%C3%B1" [] c = "á" -> "%C3%A1" [] OTHER -> c

\* C20: for every supplied construction age a >= 0 the mapper emits the
\* token of the bucket containing a, age 0 included
C20_AgeBucket ==
    (Mapped /\ "construction_age" \in DOMAIN raw.data
       /\ RLe(RZero, raw.data.construction_age)) =>
        LET label == construction_age_mapping[Bucket(raw.data.construction_age)]
        IN  /\ Derived("construction_age")
            /\ built.search_params.construction_age = label
            /\ <<"antiguedad[]=">> \o [i \in 1..Len(label) |-> Percent(label[i])]
                  \in QueryPairs

----------------------------------------------------------------------------
(* The precedence of the neighborhood resolution.                          *)

\* the URL's path goes from the city to the publication date or the query
NoNeighborhoodSegment ==
    /\ SubSeq(built.search_url, 1, 5) =
          <<base_url, "/", built.search_params.tipo_operacion, "/", fixed_city>>
    /\ \/ built.search_url[6] = "?"
       \/ /\ built.search_url[6] = "/"
          /\ built.search_url[7] = built.search_params.publication_date
          /\ built.search_url[8] = "?"

\* C21: a non-empty neighborhoods list is used as is; otherwise the single
\* neighborhood; otherwise a known neighborhood name that is a substring of
\* the address; when none of the three resolves, the result has no
\* neighborhood and the URL no neighborhood segment; the mapping succeeds
C21_Precedence ==
    (Returned /\ ~NoneCompared) =>
        /\ Mapped
        /\ IF GivenList # <<>> THEN Barrios = GivenList
           ELSE IF GivenSingle # <<>> THEN Barrios = <<GivenSingle>>
           ELSE IF KnownNames # {}
           THEN \E k \in KnownNames : Barrios = <<neighborhood_mapping[k][2]>>
           ELSE Barrios = <<>> /\ NoNeighborhoodSegment

\* C21, amended: list, else single neighborhood, else the table value of the
\* first known name (in table order) found in the lower-cased address, else
\* the name that follows an indicator (barrio, sector, zona, localidad) in
\* the address, known or not; when none of the four yields a non-empty name
\* the result has no neighborhood and the URL no neighborhood segment; the
\* mapping succeeds in every case
C21_PrecedenceAmended ==
    (Returned /\ ~NoneCompared) =>
        /\ Mapped
        /\ Barrios = Resolved
        /\ "barrios" \in DOMAIN built.search_params <=> Resolved # <<>>
        /\ Resolved = <<>> => NoNeighborhoodSegment
        /\ Resolved # <<>> =>
              /\ ~NoNeighborhoodSegment
              /\ SubSeq(built.search_url, 6, 6 + Len(NeighborhoodSegment(Resolved))) =
                    <<"/">> \o NeighborhoodSegment(Resolved)

C21_Witness ==
    /\ Mapped /\ GivenList = <<>> /\ GivenSingle = <<>> /\ KnownNames = {}
    /\ Address = <<"B", "a", "r", "r", "i", "o", " ", "M", "o", "d", "e",
                   "l", "i", "a", ",", " ", "B", "o", "g", "o", "t", "a">>
    /\ Barrios = <<<<"m", "o", "d", "e", "l", "i", "a">>>>
    /\ SubSeq(built.search_url, 6, 14) =
          <<"/", "m", "o", "d", "e", "l", "i", "a", "/">>


----------------------------------------------------------------------------
(* Repeated calls on one mapper.                                           *)

Calls == built.calls

\* a result without its timestamp
Timeless(result) == [k \in DOMAIN result \ {"timestamp"} |-> result[k]]

\* C22: two calls of map_property_to_search with identical input, the first
\* of them on the fresh mapper or both after other calls, yield the same
\* search_url and search_params (the same error, when the input is
\* rejected), the timestamp apart; a call leaves the mapper's tolerances and
\* the caller's record as they were
C22_Idempotent ==
    raw.by = "FincaraizMapper.calls" =>
        /\ \A i, j \in 1..Len(Calls) :
              Calls[i].argument = Calls[j].argument =>
                  Timeless(Calls[i].result) = Timeless(Calls[j].result)
        /\ raw.self = [price_tolerance |-> Rat(1, 4), area_tolerance |-> Rat(1, 5)]
        /\ Calls # <<>> => raw.data = Calls[Len(Calls)].argument

C22_Witness ==
    /\ raw.by = "FincaraizMapper.calls" /\ Len(Calls) = 3
    /\ Calls[1].argument = Calls[3].argument
    /\ Calls[1].argument = [pricing |-> [price_per_m2 |-> RInt(2000000)],
                            area_total |-> RInt(50)]
    /\ "price_tolerance" \in DOMAIN Calls[2].argument
    /\ Calls[1].result.timestamp # Calls[3].result.timestamp
    /\ Calls[3].result.search_params.precio_min = 99750000
    /\ Calls[2].result.search_params.precio_min = 80000000
    /\ Calls[1].result.search_url = Calls[3].result.search_url

----------------------------------------------------------------------------
(* The workflow called again.                                              *)

\* a run_analysis call whose analysis has been made
Analysed ==
    /\ raw.by = "RealEstateWorkflow" /\ "call" \in DOMAIN raw
    /\ built # None /\ "scraped_properties" \in DOMAIN built
    /\ outcome # "init"

\* the analysis of target T with pool P on a fresh RealEstateAnalyzer
FreshAnalysis(T, P) ==
    LET comparable == _filter_comparable_properties(T, P)
        result == _analyze_target_property(T, comparable)
    IN  IF P = <<>>
        THEN [outcome |-> ErrNoProperties, comparable_properties |-> <<>>,
              market_stats |-> None, analysis_results |-> None]
        ELSE IF comparable = <<>>
        THEN [outcome |-> ErrNoComparables, comparable_properties |-> <<>>,
              market_stats |-> None, analysis_results |-> None]
        ELSE [outcome |-> IF IsRaised(result) THEN result.raised ELSE "ok",
              comparable_properties |-> comparable,
              market_stats |-> _calculate_market_statistics(comparable),
              analysis_results |-> IF IsRaised(result) THEN None ELSE result]

\* C23: the analysis of a run_analysis call, the first on its workflow or a
\* later one, has the outcome, the comparable set, the statistics and the
\* verdict that a fresh analyzer gives for the call's target and the
\* properties scraped in that call
C23_FreshEveryRun ==
    Analysed =>
        [outcome |-> outcome, comparable_properties |-> comparable_properties,
         market_stats |-> market_stats, analysis_results |-> analysis_results]
            = FreshAnalysis(raw.data, built.scraped_properties)

----------------------------------------------------------------------------
(* SpecConverter: one call of the CSV converter.                           *)

\* the dict the call returned
Answer == built.returned

\* the sum of a sequence of naturals
RECURSIVE SumOf(_)
SumOf(ns) == IF ns = <<>> THEN 0 ELSE Head(ns) + SumOf(Tail(ns))

\* what the successfully converted files of a batch add up to
OverConverted(file_results, key) ==
    SumOf([i \in 1..Len(file_results) |->
              IF file_results[i].success THEN file_results[i][key] ELSE 0])

\* C24: after convert_multiple_files, total_files is the number of inputs,
\* converted_files + failed_files = total_files, success holds exactly when
\* no file failed, file_results has one entry per input in input order, and
\* total_properties and total_converted are the sums of
\* total_input_properties and converted_properties over the successfully
\* converted files only
C24_BatchTotals ==
    (raw.by = "CSVConverter.convert_multiple_files" /\ built # None) =>
        /\ Answer.total_files = Len(raw.input_files)
        /\ Answer.converted_files + Answer.failed_files = Answer.total_files
        /\ Answer.success <=> Answer.failed_files = 0
        /\ Len(Answer.file_results) = Len(raw.input_files)
        /\ \A i \in 1..Len(raw.input_files) :
              Answer.file_results[i].input_file = raw.input_files[i]
        /\ Answer.total_properties =
              OverConverted(Answer.file_results, "total_input_properties")
        /\ Answer.total_converted =
              OverConverted(Answer.file_results, "converted_properties")

C24_Witness ==
    /\ raw.by = "CSVConverter.convert_multiple_files" /\ built # None
    /\ raw.input_files = <<InputFile("mixed"), InputFile("missing"), InputFile("short")>>
    /\ raw.output_dir = "out"
    /\ Answer.converted_files = 1 /\ Answer.failed_files = 2
    /\ Answer.total_properties = 4 /\ Answer.total_converted = 2
    /\ Answer.file_results[3].total_input_properties = 1
    /\ ~Answer.success

\* the rows of a file that convert, in the file's order
Convertible(rows) ==
    SelectSeq(rows, LAMBDA row : CSVConverter_convert_single_property(row) # None)

\* C25: convert_csv_file returns a dict in every case: for an unreadable
\* input success = False with an 'error' entry; otherwise
\* converted_properties <= total_input_properties, conversion_rate is their
\* quotient (0 without input rows), success = True only if at least one
\* property was converted and the output file written, and every row that
\* converts is converted, whatever rows fail before it
C25_ConvertFile ==
    (raw.by = "CSVConverter.convert_csv_file" /\ built # None) =>
        LET read == _read_csv_file(raw.input_file)
        IN  IF IsRaised(read)
            THEN ~Answer.success /\ "error" \in DOMAIN Answer /\ built.files = {}
            ELSE /\ Answer.total_input_properties = Len(read.rows)
                 /\ Answer.converted_properties <= Answer.total_input_properties
                 /\ Answer.conversion_rate =
                       IF Answer.total_input_properties = 0 THEN RZero
                       ELSE Rat(Answer.converted_properties,
                                Answer.total_input_properties)
                 /\ Answer.converted_properties = Len(Convertible(read.rows))
                 /\ Answer.success =>
                       /\ Answer.converted_properties >= 1
                       /\ \E f \in built.files :
                             /\ f.path = raw.output_file
                             /\ [i \in 1..Len(f.rows) |-> f.rows[i].address]
                                   = [i \in 1..Len(Convertible(read.rows)) |->
                                         _extract_address(Convertible(read.rows)[i])]
                 /\ ~Answer.success => built.files = {}

C25_Witness ==
    /\ raw.by = "CSVConverter.convert_csv_file" /\ built # None
    /\ raw.input_file = InputFile("mixed") /\ raw.output_file.dir = "out"
    /\ Answer.success
    /\ Answer.total_input_properties = 4 /\ Answer.converted_properties = 2
    /\ Answer.conversion_rate = Rat(1, 2)
    /\ \E f \in built.files :
          /\ f.rows[1].address = PyStr(<<"C", "l", " ", "1">>)
          /\ f.rows[2].address = PyStr(<<"C", "l", " ", "2">>)
          /\ f.rows[2].operation = PyStr(ARRIENDO)

\* a field of a row mentions one of the words, case-insensitively
Mentions(row, key, words) ==
    /\ key \in DOMAIN row /\ row[key] # None
    /\ \E w \in words : IsSubstring(w, UpperStr(row[key].str))

\* the operation of a row: its operation field decides, rent before sale;
\* the title is consulted when the operation field names neither
OperationOf(row) ==
    IF Mentions(row, "operation", {ARRIENDO, RENTA}) THEN ARRIENDO
    ELSE IF Mentions(row, "operation", {VENTA, SALE}) THEN VENTA
    ELSE IF Mentions(row, "title", {ARRIENDO, RENTA}) THEN ARRIENDO
    ELSE VENTA

\* C26: _extract_operation always returns 'ARRIENDO' or 'VENTA', the one
\* the operation field names (rent keywords first), else the one the title
\* names, else 'VENTA'
C26_Operation ==
    (raw.by = "CSVConverter._extract_operation" /\ built # None) =>
        /\ Answer \in {PyStr(ARRIENDO), PyStr(VENTA)}
        /\ Answer = PyStr(OperationOf(raw.data))

----------------------------------------------------------------------------
(* SpecAnalysis: the example of the analysis engine.                       *)

ExampleAnalysed ==
    /\ target_property = ExampleTarget /\ properties = sample_properties
    /\ outcome # "init"

\* C27: for the example target (apartment, sale, 85 m2, 280 million,
\* 3 bedrooms, stratum 4) and the two sample records (250 million at 80 m2,
\* 240 million at 75 m2) both records are comparable, the market price
\* estimate lies strictly between 240 and 280 million, and the market trend
\* is "Insufficient data"
C27_Example ==
    ExampleAnalysed =>
        /\ outcome = "ok"
        /\ comparable_properties = sample_properties
        /\ analysis_results.comparable_properties_count = 2
        /\ RLt(RInt(240), analysis_results.market_price_estimate)
        /\ RLt(analysis_results.market_price_estimate, RInt(280))
        /\ analysis_results.market_trend = "Insufficient data"

C27_Witness ==
    /\ ExampleAnalysed
    /\ analysis_results # None
    /\ analysis_results.market_price_estimate = Rat(315651, 1240)
    /\ \A i \in 1..2 : sample_properties[i].pricing.price_per_m2
                          = Rat(sample_properties[i].pricing.sale_price,
                                sample_properties[i].characteristics.area_habitable)

----------------------------------------------------------------------------
(* SpecWorkflowRuns: the outcome of a run_analysis call.                   *)

\* run_analysis has returned
RunReturned ==
    /\ raw.by = "RealEstateWorkflow" /\ "call" \in DOMAIN raw
    /\ built # None /\ "success" \in DOMAIN built

\* the report files the current call has written
ReportsOfCall == {f \in raw.output_dir : f.call = raw.call}

\* C28: run_analysis returns a dict in every case; when a step fails the
\* result is success = False with an 'error' message and the call has
\* generated no report file; success = True is returned only after the
\* validation, the queries, the scraping, the analysis and the three
\* reports have been completed
C28_FailureLeavesNoReport ==
    RunReturned =>
        IF built.success
        THEN /\ _validate_property(raw.data) = None
             /\ outcome = "ok"
             /\ {f.report : f \in ReportsOfCall} = {"csv", "markdown", "json"}
             /\ built.report_files = {"csv", "markdown", "json"}
        ELSE /\ "error" \in DOMAIN built
             /\ ReportsOfCall = {}

----------------------------------------------------------------------------
(* Spec: the stored statistics and the stored verdict.                     *)

\* a step that stores statistics or a verdict stores both, computed from
\* the comparable set of that one analyze_market call
StoresBoth ==
    (market_stats' # market_stats \/ analysis_results' # analysis_results) =>
        /\ market_stats' = _calculate_market_statistics(comparable_properties')
        /\ analysis_results' = _analyze_target_property(target_property, comparable_properties')

\* C29: after any sequence of add_properties, set_target_property and
\* analyze_market calls, market_stats and analysis_results are both unset
\* or both produced by the same analyze_market call
C29_StatsAndVerdictPaired ==
    [][/\ market_stats' = None <=> analysis_results' = None
       /\ StoresBoth]_vars

----------------------------------------------------------------------------
(* SpecAnalysis: the confidence score and the number of comparables.       *)

\* min(1, n / 10)
BaseConfidence(n) == IF n >= 10 THEN ROne ELSE Rat(n, 10)

\* C30: for n comparables the confidence score c satisfies
\* 0.25 * min(1, n/10) <= c <= min(1, n/10); an analysis with fewer than 5
\* comparables carries the low-confidence recommendation, and the
\* high-confidence recommendation appears only with at least 9 comparables
C30_ConfidenceByCount ==
    outcome = "ok" =>
        LET n == Len(comparable_properties)
            c == analysis_results.confidence_score
            recs == Entries(analysis_results.recommendations)
        IN  /\ n = analysis_results.comparable_properties_count
            /\ ~SurdLt(c, RMul(Rat(1, 4), BaseConfidence(n)))
            /\ SurdLe(c, BaseConfidence(n))
            /\ n < 5 => RecLowConfidence \in recs
            /\ RecHighConfidence \in recs => n >= 9

\* nine comparables with the high-confidence recommendation, the score at
\* its upper bound
C30_Witness ==
    /\ outcome = "ok"
    /\ Len(comparable_properties) = 9
    /\ RecHighConfidence \in Entries(analysis_results.recommendations)
    /\ analysis_results.confidence_score = SurdOfRat(Rat(9, 10))

====
